---- MODULE Spec2Model ----
(***************************************************************************)
(* A model of the data-migration scripts of dh2e-dread-of-zarovich:        *)
(*   scripts/fix-actor-data.py   (structural fixes of actors and items)    *)
(*   scripts/refactor-data.py    (schema refactoring, trait rule table)    *)
(*   scripts/add-actor-items.py  (recovery of skills/talents/traits/powers *)
(*                                from the narrative notes)                *)
(*                                                                         *)
(* JSON values are tagged pairs <<tag, payload>>.  A Python dict is an     *)
(* ORDERED sequence of <<key, value>> pairs (insertion order, which is the *)
(* order json.dump writes), a list is a sequence, a str is a sequence of   *)
(* one-character strings so that the scripts' text processing (regular     *)
(* expressions, split, strip, lower, f-strings) is computed and not        *)
(* assumed.  Keys of dicts are plain TLA+ strings: the scripts never look  *)
(* inside a key.                                                           *)
(***************************************************************************)
EXTENDS Integers, Sequences, FiniteSets, TLC

VARIABLES
    kind,       \* the data file the record lives in: "actor" or an item type
    doc,        \* the record under migration as it is stored in the data file
    original,   \* the pre-fix revision of the same actor (git show 56db5cd:...)
    hist,       \* the transforms applied so far, oldest first
    trace,      \* the stored record after each transform (trace[1] = as loaded);
                \* in a run over files, the files as they were when the run began
    id_counter, \* add-actor-items.py: _id_counter of the running process
    created,    \* the records created by make_* in the current run, in order
    files,      \* a run of add-actor-items.py: the actor files on disk
    pos,        \* a run of add-actor-items.py: <<file index, phase>>
    text,       \* text functions: the input string
    out         \* text functions: the result of the last function applied

vars == <<kind, doc, original, hist, trace, id_counter, created, files, pos, text, out>>

----------------------------------------------------------------------------
(* JSON values *)

Num(n) == <<"num", n>>
Str(s) == <<"str", s>>
Bool(b) == <<"bool", b>>
List(l) == <<"list", l>>
Dict(d) == <<"dict", d>>
None == <<"null", 0>>
EmptyDict == Dict(<<>>)
EmptyList == List(<<>>)
EmptyStr == Str(<<>>)

Tag(v) == v[1]
Val(v) == v[2]
IsDict(v) == Tag(v) = "dict"
IsList(v) == Tag(v) = "list"
IsStr(v) == Tag(v) = "str"
IsNum(v) == Tag(v) = "num"

\* Python truth value of a JSON value
Truthy(v) ==
    CASE Tag(v) = "num" -> Val(v) # 0
      [] Tag(v) = "bool" -> Val(v)
      [] Tag(v) = "null" -> FALSE
      [] OTHER -> Len(Val(v)) > 0

\* k in d
Has(d, k) == \E i \in DOMAIN Val(d) : Val(d)[i][1] = k

\* d[k]
At(d, k) == Val(d)[CHOOSE i \in DOMAIN Val(d) : Val(d)[i][1] = k][2]

\* d.get(k, dflt)
Get(d, k, dflt) == IF Has(d, k) THEN At(d, k) ELSE dflt

\* d[k] = v : an existing key keeps its place, a new key goes last
Put(d, k, v) ==
    IF Has(d, k)
    THEN Dict([i \in DOMAIN Val(d) |->
                 IF Val(d)[i][1] = k THEN <<k, v>> ELSE Val(d)[i]])
    ELSE Dict(Append(Val(d), <<k, v>>))

\* the dict after d.pop(k, ...) / del d[k]
Del(d, k) ==
    LET keep(p) == p[1] # k
    IN  Dict(SelectSeq(Val(d), keep))

\* a default-fill that sets the key whether or not it is present, d[k] = v:
\* the fault that default-fill must not have
SetDefaultOverwrite(d, k, v) == Put(d, k, v)

\* d.setdefault(k, v)
SetDefault(d, k, v) == IF Has(d, k) THEN d ELSE Put(d, k, v)

Keys(d) == {Val(d)[i][1] : i \in DOMAIN Val(d)}

Min(S) == CHOOSE x \in S : \A y \in S : x <= y

----------------------------------------------------------------------------
(* Python str operations on sequences of characters *)

UpperCase == <<"A","B","C","D","E","F","G","H","I","J","K","L","M",
               "N","O","P","Q","R","S","T","U","V","W","X","Y","Z">>
LowerCase == <<"a","b","c","d","e","f","g","h","i","j","k","l","m",
               "n","o","p","q","r","s","t","u","v","w","x","y","z">>
DigitChars == <<"0","1","2","3","4","5","6","7","8","9">>

IsUpper(c) == \E i \in DOMAIN UpperCase : UpperCase[i] = c
IsLower(c) == \E i \in DOMAIN LowerCase : LowerCase[i] = c
IsDigit(c) == \E i \in DOMAIN DigitChars : DigitChars[i] = c
\* \s of the re module, on the characters of the model's alphabet
IsSpace(c) == c \in {" ", "\n", "\t", "\r"}

LowerChar(c) ==
    IF IsUpper(c) THEN LowerCase[CHOOSE i \in DOMAIN UpperCase : UpperCase[i] = c]
    ELSE c
UpperChar(c) ==
    IF IsLower(c) THEN UpperCase[CHOOSE i \in DOMAIN LowerCase : LowerCase[i] = c]
    ELSE c

\* s.lower(), s.upper()
Lower(s) == [i \in DOMAIN s |-> LowerChar(s[i])]
Upper(s) == [i \in DOMAIN s |-> UpperChar(s[i])]

DigitVal(c) == (CHOOSE i \in DOMAIN DigitChars : DigitChars[i] = c) - 1

\* s[i-1:] (1-based i), s[i-1:j]
From(s, i) == SubSeq(s, i, Len(s))
Slice(s, i, j) == SubSeq(s, i, j)

\* number of leading / trailing characters of s that are in the set cs
LeadCount(s, cs) ==
    IF \A i \in DOMAIN s : s[i] \in cs THEN Len(s)
    ELSE Min({i \in DOMAIN s : s[i] \notin cs}) - 1
TrailCount(s, cs) ==
    IF \A i \in DOMAIN s : s[i] \in cs THEN Len(s)
    ELSE Len(s) - (CHOOSE i \in DOMAIN s :
                      /\ s[i] \notin cs
                      /\ \A j \in DOMAIN s : j > i => s[j] \in cs)

Spaces == {" ", "\n", "\t", "\r"}
LStripSet(s, cs) == SubSeq(s, LeadCount(s, cs) + 1, Len(s))
RStripSet(s, cs) == SubSeq(s, 1, Len(s) - TrailCount(s, cs))
\* s.strip(), s.rstrip('.'), s.strip('-')
Strip(s) == RStripSet(LStripSet(s, Spaces), Spaces)
RStripDot(s) == RStripSet(s, {"."})
StripDash(s) == RStripSet(LStripSet(s, {"-"}), {"-"})

\* s[i-1:].startswith(p)
StartsAt(s, i, p) ==
    /\ i >= 1
    /\ i + Len(p) - 1 <= Len(s)
    /\ \A j \in DOMAIN p : s[i + j - 1] = p[j]

\* p in s
Contains(s, p) == \E i \in 1..(Len(s) + 1) : StartsAt(s, i, p)

\* s.split(c) for a one-character separator c
RECURSIVE SplitChar(_, _)
SplitChar(s, c) ==
    IF \A i \in DOMAIN s : s[i] # c THEN <<s>>
    ELSE LET k == Min({i \in DOMAIN s : s[i] = c})
         IN  <<SubSeq(s, 1, k - 1)>> \o SplitChar(SubSeq(s, k + 1, Len(s)), c)

\* int(s) of a string of decimal digits
RECURSIVE DigitsToInt(_)
DigitsToInt(s) ==
    IF s = <<>> THEN 0
    ELSE 10 * DigitsToInt(SubSeq(s, 1, Len(s) - 1)) + DigitVal(s[Len(s)])

\* str(n), n >= 0
RECURSIVE IntToStr(_)
IntToStr(n) ==
    IF n < 10 THEN <<DigitChars[n + 1]>>
    ELSE IntToStr(n \div 10) \o <<DigitChars[(n % 10) + 1]>>

\* "sep".join(parts)
RECURSIVE Join(_, _)
Join(parts, sep) ==
    IF parts = <<>> THEN <<>>
    ELSE IF Len(parts) = 1 THEN parts[1]
    ELSE parts[1] \o sep \o Join(Tail(parts), sep)

\* the concatenation of a sequence of sequences
RECURSIVE Flatten(_)
Flatten(ss) == IF ss = <<>> THEN <<>> ELSE Head(ss) \o Flatten(Tail(ss))

----------------------------------------------------------------------------
(* scripts/fix-actor-data.py *)

\* table.get(key, dflt) for a table of <<key string, value string>> pairs
MapGet(table, key, dflt) ==
    IF \E i \in DOMAIN table : table[i][1] = key
    THEN table[CHOOSE i \in DOMAIN table : table[i][1] = key][2]
    ELSE dflt

S_armour == <<"a","r","m","o","u","r">>
S_weapon == <<"w","e","a","p","o","n">>
S_gear == <<"g","e","a","r">>
S_ammunition == <<"a","m","m","u","n","i","t","i","o","n">>
S_trait == <<"t","r","a","i","t">>
S_skill == <<"s","k","i","l","l">>
S_talent == <<"t","a","l","e","n","t">>
S_power == <<"p","o","w","e","r">>
S_melee == <<"m","e","l","e","e">>
S_ranged == <<"r","a","n","g","e","d">>
S_thrown == <<"t","h","r","o","w","n">>
S_objective == <<"o","b","j","e","c","t","i","v","e">>
S_common == <<"c","o","m","m","o","n">>
S_magazine == <<"m","a","g","a","z","i","n","e">>

DAMAGE_TYPE_MAP ==
    << <<<<"E">>, <<"e","n","e","r","g","y">>>>,
       <<<<"R">>, <<"r","e","n","d","i","n","g">>>>,
       <<<<"I">>, <<"i","m","p","a","c","t">>>>,
       <<<<"X">>, <<"e","x","p","l","o","s","i","v","e">>>> >>

WEAPON_CLASS_MAP ==
    << <<<<"M","e","l","e","e">>, S_melee>>,
       <<<<"P","i","s","t","o","l">>, S_ranged>>,
       <<<<"B","a","s","i","c">>, S_ranged>>,
       <<<<"H","e","a","v","y">>, S_ranged>>,
       <<<<"T","h","r","o","w","n">>, S_thrown>> >>

\* fix_characteristics: {"value": X} or a bare X becomes {"base": X, "advances": 0}
fix_characteristics(chars) ==
    Dict([i \in DOMAIN Val(chars) |->
        LET key == Val(chars)[i][1]
            val == Val(chars)[i][2]
        IN  IF IsDict(val)
            THEN <<key, Dict(<< <<"base", Get(val, "base", Get(val, "value", Num(25)))>>,
                                <<"advances", Get(val, "advances", Num(0))>> >>)>>
            ELSE <<key, Dict(<< <<"base", val>>, <<"advances", Num(0)>> >>)>>])

\* the six body locations read out of a mapping, 0 where it has none
SixLocations(locs) ==
    Dict(<< <<"head", Get(locs, "head", Num(0))>>,
            <<"rightArm", Get(locs, "rightArm", Num(0))>>,
            <<"leftArm", Get(locs, "leftArm", Num(0))>>,
            <<"body", Get(locs, "body", Num(0))>>,
            <<"rightLeg", Get(locs, "rightLeg", Num(0))>>,
            <<"leftLeg", Get(locs, "leftLeg", Num(0))>> >>)

UniformLocations(val) ==
    Dict(<< <<"head", val>>, <<"rightArm", val>>, <<"leftArm", val>>,
            <<"body", val>>, <<"rightLeg", val>>, <<"leftLeg", val>> >>)

\* the items of an actor that are dicts of type "armour", as indices
ArmourItemIndices(actor) ==
    LET items == Val(Get(actor, "items", EmptyList))
    IN  {i \in DOMAIN items :
            IsDict(items[i]) /\ Get(items[i], "type", None) = Str(S_armour)}

\* fix_actor_armour: the AP of the first embedded armour item, else the legacy
\* flat value on every location, else zero everywhere
fix_actor_armour(actor) ==
    LET from_item(sys_data) ==
            SixLocations(Get(sys_data, "ap", Get(sys_data, "locations", EmptyDict)))
        from_old(old_armour) ==
            IF IsDict(old_armour) /\ Has(old_armour, "value")
            THEN UniformLocations(At(old_armour, "value"))
            ELSE UniformLocations(Num(0))
        first(items, idx) ==
            IF idx # {} THEN from_item(Get(items[Min(idx)], "system", EmptyDict))
            ELSE from_old(Get(Get(actor, "system", EmptyDict), "armour", EmptyDict))
    IN  first(Val(Get(actor, "items", EmptyList)), ArmourItemIndices(actor))

\* int(s) for s a str: an optional sign and decimal digits; ok is FALSE where
\* Python raises ValueError
ParseInt(s) ==
    LET parsed(t, ds) ==
            IF ds # <<>> /\ \A i \in DOMAIN ds : IsDigit(ds[i])
            THEN [ok |-> TRUE,
                  val |-> IF t[1] = "-" THEN 0 - DigitsToInt(ds) ELSE DigitsToInt(ds)]
            ELSE [ok |-> FALSE, val |-> 0]
        signed(t) == parsed(t, IF t # <<>> /\ t[1] \in {"-", "+"} THEN Tail(t) ELSE t)
    IN  signed(Strip(s))

RofDict(single, semi, full) ==
    Dict(<< <<"single", Bool(single)>>, <<"semi", Num(semi)>>, <<"full", Num(full)>> >>)

\* one of the two numeric fields of a rate of fire: "-" and unparsable give 0
RofField(p) ==
    LET field(t, n) == IF t = <<"-">> THEN 0 ELSE IF n.ok THEN n.val ELSE 0
    IN  field(Strip(p), ParseInt(Strip(p)))

\* parse_rof: 'S/2/-' becomes {single, semi, full}
parse_rof(rof_str) ==
    LET split(parts) ==
            IF Len(parts) # 3 THEN RofDict(TRUE, 0, 0)
            ELSE RofDict(Upper(Strip(parts[1])) = <<"S">>,
                         RofField(parts[2]), RofField(parts[3]))
    IN  IF ~Truthy(rof_str) \/ ~IsStr(rof_str) THEN RofDict(FALSE, 0, 0)
        ELSE split(SplitChar(Val(rof_str), "/"))

\* [q.strip() for q in special.split(",") if q.strip()]
SpecialToQualities(special) ==
    LET nonempty(q) == q # <<>>
        strs(kept) == List([i \in DOMAIN kept |-> Str(kept[i])])
        strip(parts) == strs(SelectSeq([i \in DOMAIN parts |-> Strip(parts[i])], nonempty))
    IN  strip(SplitChar(special, ","))

\* the optional trailing "availability" of the fixed item dicts
KeepAvailability(fixed, item_sys) ==
    IF Has(item_sys, "availability")
    THEN Put(fixed, "availability", At(item_sys, "availability"))
    ELSE fixed

\* fix_weapon: a NEW dict holding exactly the keys below, in this order
fix_weapon(item_sys) ==
    LET class(raw) == Str(MapGet(WEAPON_CLASS_MAP, Val(raw), Lower(Val(raw))))
        rof == IF Has(item_sys, "rof") THEN At(item_sys, "rof")
               ELSE IF Has(item_sys, "rateOfFire") THEN parse_rof(At(item_sys, "rateOfFire"))
               ELSE RofDict(FALSE, 0, 0)
        type(damage_type) ==
            Str(MapGet(DAMAGE_TYPE_MAP, Val(damage_type), Lower(Val(damage_type))))
        damage == IF IsDict(Get(item_sys, "damage", None)) THEN At(item_sys, "damage")
                  ELSE Dict(<< <<"formula", Get(item_sys, "damage", Str(<<"1","d","1","0">>))>>,
                               <<"type", type(Get(item_sys, "damageType", Str(<<"I">>)))>>,
                               <<"bonus", Num(0)>> >>)
        clip(clip_in) ==
            IF IsDict(clip_in) THEN clip_in
            ELSE IF IsNum(clip_in)
            THEN Dict(<< <<"value", clip_in>>, <<"max", clip_in>> >>)
            ELSE Dict(<< <<"value", Num(0)>>, <<"max", Num(0)>> >>)
        qualities == IF Has(item_sys, "qualities") /\ IsList(At(item_sys, "qualities"))
                     THEN At(item_sys, "qualities")
                     ELSE IF Has(item_sys, "special") /\ Truthy(At(item_sys, "special"))
                     THEN SpecialToQualities(Val(At(item_sys, "special")))
                     ELSE EmptyList
        fixed == Dict(<< <<"description", Get(item_sys, "description", EmptyStr)>>,
                         <<"class", class(Get(item_sys, "class", Str(S_melee)))>>,
                         <<"range", Get(item_sys, "range", Num(0))>>,
                         <<"rof", rof>>,
                         <<"damage", damage>>,
                         <<"penetration", Get(item_sys, "penetration", Num(0))>>,
                         <<"clip", clip(Get(item_sys, "clip", None))>>,
                         <<"reload", Get(item_sys, "reload", EmptyStr)>>,
                         <<"weight", Get(item_sys, "weight", Num(0))>>,
                         <<"qualities", qualities>>,
                         <<"equipped", Get(item_sys, "equipped", Bool(TRUE))>> >>)
    IN  KeepAvailability(fixed, item_sys)

\* fix_armour_item: "ap" becomes "locations"
fix_armour_item(item_sys) ==
    LET locs == Get(item_sys, "ap", Get(item_sys, "locations", EmptyDict))
        fixed == Dict(<< <<"description", Get(item_sys, "description", EmptyStr)>>,
                         <<"locations", SixLocations(locs)>>,
                         <<"maxAgility", Get(item_sys, "maxAgility", Num(0))>>,
                         <<"qualities", Get(item_sys, "qualities", EmptyList)>>,
                         <<"weight", Get(item_sys, "weight", Num(0))>>,
                         <<"equipped", Get(item_sys, "equipped", Bool(TRUE))>> >>)
    IN  KeepAvailability(fixed, item_sys)

\* fix_gear_item
fix_gear_item(item_sys) ==
    LET fixed == Dict(<< <<"description", Get(item_sys, "description", EmptyStr)>>,
                         <<"weight", Get(item_sys, "weight", Num(0))>>,
                         <<"quantity", Get(item_sys, "quantity", Num(1))>> >>)
    IN  KeepAvailability(fixed, item_sys)

\* fix_ammunition_item: weaponType becomes weaponGroup
fix_ammunition_item(item_sys) ==
    LET fixed == Dict(<< <<"description", Get(item_sys, "description", EmptyStr)>>,
                         <<"damageModifier", Get(item_sys, "damageModifier", Num(0))>>,
                         <<"damageType", Get(item_sys, "damageType", EmptyStr)>>,
                         <<"penetrationModifier", Get(item_sys, "penetrationModifier", Num(0))>>,
                         <<"qualities", Get(item_sys, "qualities", EmptyList)>>,
                         <<"quantity", Get(item_sys, "quantity", Num(1))>>,
                         <<"weight", Get(item_sys, "weight", Num(0))>>,
                         <<"weaponGroup", Get(item_sys, "weaponGroup",
                                              Get(item_sys, "weaponType", EmptyStr))>> >>)
    IN  KeepAvailability(fixed, item_sys)

\* the {value} of an f-string: str(value)
Fmt(v) == IF IsNum(v) THEN IntToStr(Val(v)) ELSE Val(v)

\* step 3 of fix_actor: the NPC template fields, each set only when absent
FillTemplateFields(sys) ==
    SetDefault(
      SetDefault(
        SetDefault(
          SetDefault(
            SetDefault(
              SetDefault(
                SetDefault(
                  SetDefault(sys, "fate", Dict(<< <<"value", Num(0)>>, <<"max", Num(0)>> >>)),
                  "fatigue", Num(0)),
                "corruption", Num(0)),
              "insanity", Num(0)),
            "influence", Num(0)),
          "xp", Dict(<< <<"total", Num(0)>>, <<"spent", Num(0)>> >>)),
        "aptitudes", EmptyList),
      "defeated", Bool(FALSE))

\* notes_parts of fix_actor joined: description, threat rating, movement and
\* notes, each part that is present
NotesText(desc, threat, movement, notes) ==
    LET p1 == IF Truthy(desc) THEN <<Val(desc)>> ELSE <<>>
        p2 == IF Truthy(threat)
              THEN <<<<"\n">> \o <<"T","H","R","E","A","T"," ","R","A","T","I","N","G",":"," ">> \o Fmt(threat)>>
              ELSE <<>>
        p3 == IF Truthy(movement)
              THEN <<<<"\n">> \o <<"M","O","V","E","M","E","N","T",":"," ","H","a","l","f"," ">> \o Fmt(Get(movement, "half", Num(0)))
                     \o <<","," ","F","u","l","l"," ">> \o Fmt(Get(movement, "full", Num(0)))
                     \o <<","," ","C","h","a","r","g","e"," ">> \o Fmt(Get(movement, "charge", Num(0)))
                     \o <<","," ","R","u","n"," ">> \o Fmt(Get(movement, "run", Num(0)))>>
              ELSE <<>>
        p4 == IF Truthy(notes) THEN <<<<"\n">> \o Val(notes)>> ELSE <<>>
    IN  Str(Join(p1 \o p2 \o p3 \o p4, <<"\n">>))

\* step 4 of fix_actor: notes, threatRating and movement are popped and
\* system.details is (re)built from them
FixDetails(sys) ==
    LET details(old_threat) ==
            Dict(<< <<"homeworld", EmptyStr>>,
                    <<"background", EmptyStr>>,
                    <<"role", IF Truthy(old_threat) THEN old_threat ELSE EmptyStr>>,
                    <<"divination", EmptyStr>>,
                    <<"notes", NotesText(Get(sys, "description", EmptyStr), old_threat,
                                         Get(sys, "movement", None),
                                         Get(sys, "notes", EmptyStr))>> >>)
    IN  Put(Del(Del(Del(sys, "notes"), "threatRating"), "movement"), "details",
            details(Get(sys, "threatRating", EmptyStr)))

\* step 5 of fix_actor, one embedded item
FixEmbeddedItem(item) ==
    LET fix(item_sys, item_type) ==
            IF item_type = Str(S_weapon) THEN Put(item, "system", fix_weapon(item_sys))
            ELSE IF item_type = Str(S_armour) THEN Put(item, "system", fix_armour_item(item_sys))
            ELSE IF item_type = Str(S_gear) THEN Put(item, "system", fix_gear_item(item_sys))
            ELSE item
    IN  IF ~IsDict(item) THEN item
        ELSE fix(Get(item, "system", EmptyDict), Get(item, "type", EmptyStr))

FixItems(actor) ==
    IF Has(actor, "items") /\ IsList(At(actor, "items"))
    THEN Put(actor, "items",
             List([i \in DOMAIN Val(At(actor, "items")) |->
                      FixEmbeddedItem(Val(At(actor, "items"))[i])]))
    ELSE actor

\* fix_actor
fix_actor(actor) ==
    LET characteristics(sys0) ==
            IF Has(sys0, "characteristics")
            THEN Put(sys0, "characteristics", fix_characteristics(At(sys0, "characteristics")))
            ELSE sys0
        sys2 == Put(characteristics(Get(actor, "system", EmptyDict)), "armour",
                    fix_actor_armour(actor))
    IN  Put(FixItems(actor), "system", FixDetails(FillTemplateFields(sys2)))

\* process_items_file of fix-actor-data.py, one standalone item
fix_standalone_item(item) ==
    LET fix(item_sys, item_type) ==
            IF item_type = Str(S_weapon) THEN Put(item, "system", fix_weapon(item_sys))
            ELSE IF item_type = Str(S_armour) THEN Put(item, "system", fix_armour_item(item_sys))
            ELSE IF item_type = Str(S_gear) THEN Put(item, "system", fix_gear_item(item_sys))
            ELSE IF item_type = Str(S_ammunition)
            THEN Put(item, "system", fix_ammunition_item(item_sys))
            ELSE item
    IN  IF ~IsDict(item) THEN item
        ELSE fix(Get(item, "system", EmptyDict), Get(item, "type", EmptyStr))

----------------------------------------------------------------------------
(* scripts/refactor-data.py *)

\* re.sub(r'[^a-z0-9]+', '-', s): every maximal run of other characters
\* becomes one '-'
IsSlugChar(c) == IsLower(c) \/ IsDigit(c)
SubNonSlug(s) ==
    LET keep(i) == IsSlugChar(s[i]) \/ i = 1 \/ IsSlugChar(s[i - 1])
        idx == SelectSeq([i \in DOMAIN s |-> i], keep)
    IN  [n \in DOMAIN idx |-> IF IsSlugChar(s[idx[n]]) THEN s[idx[n]] ELSE "-"]

\* slugify without .lower(): the fault that turns capitals into '-'
slugify_no_lower(name) == StripDash(SubNonSlug(name))

\* slugify
slugify(name) == StripDash(SubNonSlug(Lower(name)))

\* where `\)$` can match in t: the index of a ')' that ends t, or that is
\* followed only by the final line break of t; 0 when there is none
ParenEnd(t) ==
    IF Len(t) >= 1 /\ t[Len(t)] = ")" THEN Len(t)
    ELSE IF Len(t) >= 2 /\ t[Len(t)] = "\n" /\ t[Len(t) - 1] = ")" THEN Len(t) - 1
    ELSE 0

\* the rest of `^(.+?)\s*\(BODY\)$` after a group 1 of length j: the white
\* space is skipped, a '(' follows, and BODY is the non-empty text up to the
\* closing ')' at the end
ParenTail(s, j) ==
    LET tail(t, k, cp) ==
            [ok |-> k + 1 <= Len(t) /\ t[k + 1] = "(" /\ cp >= k + 3,
             body |-> SubSeq(t, k + 2, cp - 1)]
        from(t) == tail(t, LeadCount(t, Spaces), ParenEnd(t))
    IN  from(SubSeq(s, j + 1, Len(s)))

NoLineBreak(s) == \A i \in DOMAIN s : s[i] # "\n"
AllDigits(s) == s # <<>> /\ \A i \in DOMAIN s : IsDigit(s[i])
XDigits(s) == Len(s) >= 2 /\ s[1] = "x" /\ AllDigits(Tail(s))
AnyBody(s) == s # <<>> /\ NoLineBreak(s)

\* which of the three bodies of the pattern the text b between the
\* parentheses is
BodyOk(body, b) ==
    IF body = "digits" THEN AllDigits(b)
    ELSE IF body = "xdigits" THEN XDigits(b)
    ELSE AnyBody(b)

\* re.match(r'^(.+?)\s*\(BODY\)$', s) for a BODY of (\d+), x(\d+) or (.+?):
\* group 1 is lazy, so it is the shortest non-empty prefix (without a line
\* break) after which the rest of the pattern matches
ParenMatch(s, body) ==
    LET fits(pt) == pt.ok /\ BodyOk(body, pt.body)
        match(j) == [ok |-> TRUE, g1 |-> SubSeq(s, 1, j), g2 |-> ParenTail(s, j).body]
        found(J) == IF J = {} THEN [ok |-> FALSE, g1 |-> <<>>, g2 |-> <<>>]
                    ELSE match(Min(J))
    IN  found({j \in 1..Len(s) : NoLineBreak(SubSeq(s, 1, j)) /\ fits(ParenTail(s, j))})

\* re.search(r'(\d+)', s): the first maximal run of digits, <<>> when none
FirstDigits(s) ==
    LET run(rest) ==
            IF \A i \in DOMAIN rest : IsDigit(rest[i]) THEN rest
            ELSE SubSeq(rest, 1, Min({i \in DOMAIN rest : ~IsDigit(rest[i])}) - 1)
    IN  IF \A i \in DOMAIN s : ~IsDigit(s[i]) THEN <<>>
        ELSE run(SubSeq(s, Min({i \in DOMAIN s : IsDigit(s[i])}), Len(s)))

\* parse_trait_name with `return base, 0` in its third branch: the fault
\* that does not look for a number in a descriptive parenthetical
parse_trait_name_no_inner(name) ==
    LET any(m3) ==
            IF m3.ok THEN [base |-> Strip(m3.g1), rating |-> 0]
            ELSE [base |-> Strip(name), rating |-> 0]
        times(m2) ==
            IF m2.ok THEN [base |-> Strip(m2.g1), rating |-> DigitsToInt(Tail(m2.g2))]
            ELSE any(ParenMatch(name, "any"))
        plain(m1) ==
            IF m1.ok THEN [base |-> Strip(m1.g1), rating |-> DigitsToInt(m1.g2)]
            ELSE times(ParenMatch(name, "xdigits"))
    IN  plain(ParenMatch(name, "digits"))

\* parse_trait_name: <<base name, rating>>
parse_trait_name(name) ==
    LET number(ds) == IF ds # <<>> THEN DigitsToInt(ds) ELSE 0
        any(m3) ==
            IF m3.ok
            THEN [base |-> Strip(m3.g1), rating |-> number(FirstDigits(Strip(m3.g2)))]
            ELSE [base |-> Strip(name), rating |-> 0]
        times(m2) ==
            IF m2.ok THEN [base |-> Strip(m2.g1), rating |-> DigitsToInt(Tail(m2.g2))]
            ELSE any(ParenMatch(name, "any"))
        plain(m1) ==
            IF m1.ok THEN [base |-> Strip(m1.g1), rating |-> DigitsToInt(m1.g2)]
            ELSE times(ParenMatch(name, "xdigits"))
    IN  plain(ParenMatch(name, "digits"))

S_rating == Str(<<"r","a","t","i","n","g">>)
RollOption(option) ==
    Dict(<< <<"key", Str(<<"R","o","l","l","O","p","t","i","o","n">>)>>, <<"option", Str(option)>> >>)
FlatModifier(domain) ==
    Dict(<< <<"key", Str(<<"F","l","a","t","M","o","d","i","f","i","e","r">>)>>, <<"domain", Str(domain)>>,
            <<"value", S_rating>> >>)
AdjustToughness ==
    Dict(<< <<"key", Str(<<"A","d","j","u","s","t","T","o","u","g","h","n","e","s","s">>)>>, <<"mode", Str(<<"a","d","d">>)>>,
            <<"value", S_rating>> >>)
Resistance(damageType) ==
    Dict(<< <<"key", Str(<<"R","e","s","i","s","t","a","n","c","e">>)>>, <<"damageType", Str(damageType)>>,
            <<"mode", Str(<<"h","a","l","f">>)>> >>)
BrutalChargeRule ==
    Dict(<< <<"key", Str(<<"F","l","a","t","M","o","d","i","f","i","e","r">>)>>, <<"domain", Str(<<"d","a","m","a","g","e">>)>>,
            <<"value", S_rating>>,
            <<"predicate", List(<<Str(<<"a","c","t","i","o","n",":","c","h","a","r","g","e">>)>>)>> >>)

I_Fear == Str(<<"F","e","a","r">>)
I_Pinning == Str(<<"P","i","n","n","i","n","g">>)
I_Insanity == Str(<<"I","n","s","a","n","i","t","y">>)
I_Disease == Str(<<"D","i","s","e","a","s","e">>)
I_Poison == Str(<<"P","o","i","s","o","n">>)

N_Size == <<"S","i","z","e">>

\* the if/elif chain of get_trait_rules_and_immunities for the base names
\* with fixed effects: <<base name, rules, immunities>>
TRAIT_RULES ==
    << <<<<"F","e","a","r">>, <<RollOption(<<"s","e","l","f",":","f","e","a","r">>)>>, <<>> >>,
       <<<<"D","a","r","k"," ","S","i","g","h","t">>, <<RollOption(<<"s","e","l","f",":","d","a","r","k","-","s","i","g","h","t">>)>>, <<>> >>,
       <<<<"U","n","n","a","t","u","r","a","l"," ","S","t","r","e","n","g","t","h">>, <<FlatModifier(<<"d","a","m","a","g","e">>)>>, <<>> >>,
       <<<<"U","n","n","a","t","u","r","a","l"," ","T","o","u","g","h","n","e","s","s">>, <<AdjustToughness>>, <<>> >>,
       <<<<"U","n","n","a","t","u","r","a","l"," ","W","i","l","l","p","o","w","e","r">>, <<FlatModifier(<<"c","h","a","r","a","c","t","e","r","i","s","t","i","c",":","w","p">>)>>, <<>> >>,
       <<<<"U","n","n","a","t","u","r","a","l"," ","A","g","i","l","i","t","y">>, <<FlatModifier(<<"c","h","a","r","a","c","t","e","r","i","s","t","i","c",":","a","g">>)>>, <<>> >>,
       <<<<"F","r","o","m"," ","B","e","y","o","n","d">>, <<RollOption(<<"s","e","l","f",":","f","r","o","m","-","b","e","y","o","n","d">>)>>,
         <<I_Fear, I_Pinning, I_Insanity>> >>,
       <<<<"R","e","g","e","n","e","r","a","t","i","o","n">>, <<RollOption(<<"s","e","l","f",":","r","e","g","e","n","e","r","a","t","i","o","n">>)>>, <<>> >>,
       <<<<"N","a","t","u","r","a","l"," ","A","r","m","o","r">>, <<FlatModifier(<<"a","r","m","o","u","r">>)>>, <<>> >>,
       <<<<"N","a","t","u","r","a","l"," ","A","r","m","o","u","r">>, <<FlatModifier(<<"a","r","m","o","u","r">>)>>, <<>> >>,
       <<<<"D","a","e","m","o","n","i","c">>, <<AdjustToughness, RollOption(<<"s","e","l","f",":","d","a","e","m","o","n","i","c">>)>>,
         <<I_Fear, I_Pinning, I_Disease, I_Poison>> >>,
       <<<<"M","a","c","h","i","n","e">>, <<FlatModifier(<<"a","r","m","o","u","r">>), RollOption(<<"s","e","l","f",":","m","a","c","h","i","n","e">>)>>,
         <<I_Fear, I_Pinning, I_Disease, I_Poison>> >>,
       <<<<"M","i","n","d","l","e","s","s">>, <<RollOption(<<"s","e","l","f",":","m","i","n","d","l","e","s","s">>)>>,
         <<I_Fear, I_Pinning, Str(<<"p","s","y","c","h","i","c","-","m","i","n","d">>)>> >>,
       <<<<"F","e","a","r","l","e","s","s">>, <<RollOption(<<"s","e","l","f",":","f","e","a","r","l","e","s","s">>)>>, <<I_Fear>> >>,
       <<<<"S","t","u","f","f"," ","o","f"," ","N","i","g","h","t","m","a","r","e","s">>, <<RollOption(<<"s","e","l","f",":","s","t","u","f","f","-","o","f","-","n","i","g","h","t","m","a","r","e","s">>)>>,
         <<Str(<<"c","r","i","t","i","c","a","l">>), Str(<<"b","l","e","e","d","i","n","g">>), Str(<<"s","t","u","n">>)>> >>,
       <<<<"I","n","c","o","r","p","o","r","e","a","l">>,
         <<Resistance(<<"i","m","p","a","c","t">>), Resistance(<<"r","e","n","d","i","n","g">>), Resistance(<<"e","x","p","l","o","s","i","v","e">>),
           RollOption(<<"s","e","l","f",":","i","n","c","o","r","p","o","r","e","a","l">>)>>, <<>> >>,
       <<<<"B","r","u","t","a","l"," ","C","h","a","r","g","e">>, <<BrutalChargeRule>>, <<>> >> >>

\* re.match(r'^Size\s*\((.+?)\)$', name): the size category, or no match
SizeMatch(name) ==
    LET size(pt) == IF StartsAt(name, 1, N_Size) /\ pt.ok /\ AnyBody(pt.body)
                    THEN [ok |-> TRUE, g1 |-> pt.body]
                    ELSE [ok |-> FALSE, g1 |-> <<>>]
    IN  size(ParenTail(name, Len(N_Size)))

\* get_trait_rules_and_immunities: the rules and the immunities of a trait
\* name.  The rating argument only ever feeds the local of the same name,
\* which no rule reads (rules carry the symbol "rating").
get_trait_rules_and_immunities(name, rating) ==
    LET option(tail) ==
            [rules |-> <<RollOption(<<"s","e","l","f",":">> \o tail)>>, immunities |-> <<>>]
        size(m) == option(<<"s","i","z","e",":">> \o
                          (IF m.ok THEN slugify(m.g1) ELSE <<"a","v","e","r","a","g","e">>))
        row(r) == [rules |-> r[2], immunities |-> r[3]]
        lookup(base, known) ==
            IF known # {} THEN row(TRAIT_RULES[CHOOSE i \in known : TRUE])
            ELSE IF base = N_Size THEN size(SizeMatch(name))
            ELSE option(slugify(base))
        named(base) == lookup(base, {i \in DOMAIN TRAIT_RULES : TRAIT_RULES[i][1] = base})
    IN  named(parse_trait_name(name).base)

\* a rename without the test for the new key, `if old in sys: sys[new] =
\* sys.pop(old)`: the fault that overwrites a value already under the new key
RenameOverwrite(sys, old, new) ==
    IF Has(sys, old) THEN Put(Del(sys, old), new, At(sys, old)) ELSE sys

\* a rename that copies and forgets to pop, `sys[new] = sys[old]`: the fault
\* that leaves both keys
RenameCopy(sys, old, new) ==
    IF Has(sys, old) /\ ~Has(sys, new) THEN Put(sys, new, At(sys, old)) ELSE sys

\* the rename of refactor_weapon and refactor_objective:
\* if old in sys and new not in sys: sys[new] = sys.pop(old)
Rename(sys, old, new) ==
    IF Has(sys, old) /\ ~Has(sys, new)
    THEN Put(Del(sys, old), new, At(sys, old))
    ELSE sys

\* refactor_weapon
refactor_weapon(sys) ==
    LET load(s9, mag) ==
            IF Has(s9, "loadType") THEN s9
            ELSE Put(s9, "loadType",
                     IF Get(s9, "class", None) \in {Str(S_ranged), Str(S_thrown)}
                        /\ (IF IsDict(mag) THEN Val(Get(mag, "max", Num(0))) ELSE 0) > 0
                     THEN Str(S_magazine) ELSE EmptyStr)
        single(s10, rof) ==
            IF Get(s10, "class", None) = Str(S_melee) /\ Has(s10, "rof")
               /\ IsDict(rof) /\ ~Truthy(Get(rof, "single", None))
            THEN Put(s10, "rof", Put(rof, "single", Bool(TRUE)))
            ELSE s10
        melee(s10) == single(s10, Get(s10, "rof", EmptyDict))
        typed(s9) == melee(load(s9, Get(s9, "magazine", EmptyDict)))
        s1 == Rename(sys, "clip", "magazine")
        s2 == SetDefault(s1, "magazine", Dict(<< <<"value", Num(0)>>, <<"max", Num(0)>> >>))
        s3 == SetDefault(s2, "craftsmanship", Str(S_common))
        s4 == SetDefault(s3, "weaponGroup", EmptyStr)
        s5 == SetDefault(s4, "loadedAmmoId", EmptyStr)
        s6 == SetDefault(s5, "loadedMagazineName", EmptyStr)
        s7 == SetDefault(s6, "loadedRounds", EmptyList)
        s8 == SetDefault(s7, "reloadProgress", Num(0))
    IN  typed(SetDefault(s8, "rules", EmptyList))

\* refactor_armour
refactor_armour(sys) == SetDefault(sys, "craftsmanship", Str(S_common))

\* refactor_gear
refactor_gear(sys) == SetDefault(sys, "craftsmanship", Str(S_common))

\* refactor_ammunition
refactor_ammunition(sys) ==
    LET capacity(s1) == IF Has(s1, "capacity") THEN s1
                        ELSE Put(s1, "capacity", Get(s1, "quantity", Num(1)))
        s2 == capacity(SetDefault(sys, "craftsmanship", Str(S_common)))
        s3 == SetDefault(s2, "loadedRounds", EmptyList)
    IN  SetDefault(s3, "forWeapon", EmptyStr)

\* a refactor_trait that extends the rules it finds instead of replacing
\* them, sys["rules"] = sys.get("rules", []) + rules: the fault that makes a
\* second run differ from the first
refactor_trait_extend(sys, name) ==
    LET rules(ri, s2) ==
            IF ri.rules # <<>>
            THEN Put(s2, "rules", List(Val(Get(s2, "rules", EmptyList)) \o ri.rules))
            ELSE s2
        immunities(ri, s1) ==
            rules(ri, IF ri.immunities # <<>> THEN Put(s1, "immunities", List(ri.immunities))
                      ELSE s1)
    IN  immunities(get_trait_rules_and_immunities(name, Get(sys, "rating", Num(0))),
                   SetDefault(sys, "immunities", EmptyList))

\* refactor_trait
refactor_trait(sys, name) ==
    LET rules(ri, s2) == IF ri.rules # <<>> THEN Put(s2, "rules", List(ri.rules)) ELSE s2
        immunities(ri, s1) ==
            rules(ri, IF ri.immunities # <<>> THEN Put(s1, "immunities", List(ri.immunities))
                      ELSE s1)
    IN  immunities(get_trait_rules_and_immunities(name, Get(sys, "rating", Num(0))),
                   SetDefault(sys, "immunities", EmptyList))

\* "Merge notes into description": notes is popped and, unless the
\* description already contains it, appended to the description
MergeNotes(sys) ==
    LET merge(notes, s1, desc) ==
            IF Truthy(notes) /\ ~Contains(Val(desc), Val(notes))
            THEN Put(s1, "description",
                     IF Truthy(desc) THEN Str(Val(desc) \o <<"\n">> \o Val(notes)) ELSE notes)
            ELSE s1
    IN  merge(Get(sys, "notes", EmptyStr), Del(sys, "notes"),
              Get(sys, "description", EmptyStr))

N_LatentPsyker == <<"L","a","t","e","n","t"," ","P","s","y","k","e","r">>

\* refactor_standalone_trait, on the item's system dict
StandaloneTraitSys(sys, name) ==
    LET s2 == SetDefault(MergeNotes(sys), "rules", EmptyList)
        s3 == SetDefault(s2, "hasRating", Bool(FALSE))
        s4 == SetDefault(s3, "rating", Num(0))
        s5 == SetDefault(s4, "category", EmptyStr)
    IN  Put(SetDefault(s5, "immunities", EmptyList), "rules",
            IF name = N_LatentPsyker
            THEN List(<< Dict(<< <<"key", Str(<<"F","l","a","t","M","o","d","i","f","i","e","r">>)>>,
                                 <<"domain", Str(<<"i","n","i","t","i","a","t","i","v","e">>)>>,
                                 <<"value", Num(10)>> >>),
                         RollOption(<<"s","e","l","f",":","l","a","t","e","n","t","-","p","s","y","k","e","r">>) >>)
            ELSE List(<<RollOption(<<"s","e","l","f",":">> \o slugify(name))>>))

\* a function that changes item["system"] in place: a missing "system" is a
\* temporary dict whose changes are lost
InPlaceSystem(item, new_sys) ==
    IF Has(item, "system") THEN Put(item, "system", new_sys) ELSE item

\* refactor_standalone_trait
refactor_standalone_trait(item) ==
    InPlaceSystem(item, StandaloneTraitSys(Get(item, "system", EmptyDict),
                                           Val(Get(item, "name", EmptyStr))))

\* refactor_objective
refactor_objective(sys) ==
    LET s1 == Rename(sys, "issuer", "assignedBy")
        s2 == SetDefault(s1, "assignedBy", EmptyStr)
        s3 == MergeNotes(s2)
        s4 == SetDefault(s3, "timestamp", Num(0))
        s5 == SetDefault(s4, "completedTimestamp", Num(0))
    IN  SetDefault(s5, "scope", Str(<<"w","a","r","b","a","n","d">>))

\* refactor_embedded_item
refactor_embedded_item(item) ==
    LET refactor(item_type, sys) ==
            IF item_type = Str(S_weapon) THEN InPlaceSystem(item, refactor_weapon(sys))
            ELSE IF item_type = Str(S_armour) THEN InPlaceSystem(item, refactor_armour(sys))
            ELSE IF item_type = Str(S_gear) THEN InPlaceSystem(item, refactor_gear(sys))
            ELSE IF item_type = Str(S_ammunition)
            THEN InPlaceSystem(item, refactor_ammunition(sys))
            ELSE IF item_type = Str(S_trait)
            THEN InPlaceSystem(item, refactor_trait(sys, Val(Get(item, "name", EmptyStr))))
            ELSE item
    IN  IF ~IsDict(item) THEN item
        ELSE refactor(Get(item, "type", EmptyStr), Get(item, "system", EmptyDict))

\* refactor_actor
refactor_actor(actor) ==
    LET items(a1) ==
            IF Has(a1, "items")
            THEN Put(a1, "items",
                     List([i \in DOMAIN Val(At(a1, "items")) |->
                              refactor_embedded_item(Val(At(a1, "items"))[i])]))
            ELSE a1
    IN  items(InPlaceSystem(actor, SetDefault(Get(actor, "system", EmptyDict),
                                              "eliteAdvances", EmptyList)))

\* process_items_file of refactor-data.py, one standalone item of a file
\* of the given item type
refactor_standalone_item(item, item_type) ==
    LET refactor(sys) ==
            IF item_type = S_weapon THEN InPlaceSystem(item, refactor_weapon(sys))
            ELSE IF item_type = S_armour THEN InPlaceSystem(item, refactor_armour(sys))
            ELSE IF item_type = S_gear THEN InPlaceSystem(item, refactor_gear(sys))
            ELSE IF item_type = S_ammunition THEN InPlaceSystem(item, refactor_ammunition(sys))
            ELSE IF item_type = S_trait THEN refactor_standalone_trait(item)
            ELSE IF item_type = S_objective THEN InPlaceSystem(item, refactor_objective(sys))
            ELSE item
    IN  IF ~IsDict(item) THEN item
        ELSE refactor(Get(item, "system", EmptyDict))

----------------------------------------------------------------------------
(* scripts/add-actor-items.py *)

\* characters of the notes that are not ASCII, as symbols of the alphabet
Bullet == "BULLET"
EmDash == "EMDASH"
EnDash == "ENDASH"

SKILL_CHARS ==
    << <<<<"A","c","r","o","b","a","t","i","c","s">>, <<"a","g">>>>,
       <<<<"A","t","h","l","e","t","i","c","s">>, <<"s">>>>,
       <<<<"A","w","a","r","e","n","e","s","s">>, <<"p","e","r">>>>,
       <<<<"C","h","a","r","m">>, <<"f","e","l">>>>,
       <<<<"C","o","m","m","a","n","d">>, <<"f","e","l">>>>,
       <<<<"C","o","m","m","e","r","c","e">>, <<"i","n","t">>>>,
       <<<<"C","o","m","m","o","n"," ","L","o","r","e">>, <<"i","n","t">>>>,
       <<<<"D","e","c","e","i","v","e">>, <<"f","e","l">>>>,
       <<<<"D","o","d","g","e">>, <<"a","g">>>>,
       <<<<"F","o","r","b","i","d","d","e","n"," ","L","o","r","e">>, <<"i","n","t">>>>,
       <<<<"I","n","q","u","i","r","y">>, <<"f","e","l">>>>,
       <<<<"I","n","t","e","r","r","o","g","a","t","i","o","n">>, <<"w","p">>>>,
       <<<<"I","n","t","i","m","i","d","a","t","e">>, <<"s">>>>,
       <<<<"L","i","n","g","u","i","s","t","i","c","s">>, <<"i","n","t">>>>,
       <<<<"L","o","g","i","c">>, <<"i","n","t">>>>,
       <<<<"M","e","d","i","c","a","e">>, <<"i","n","t">>>>,
       <<<<"N","a","v","i","g","a","t","e">>, <<"i","n","t">>>>,
       <<<<"O","p","e","r","a","t","e">>, <<"a","g">>>>,
       <<<<"P","a","r","r","y">>, <<"w","s">>>>,
       <<<<"P","s","y","n","i","s","c","i","e","n","c","e">>, <<"p","e","r">>>>,
       <<<<"S","c","h","o","l","a","s","t","i","c"," ","L","o","r","e">>, <<"i","n","t">>>>,
       <<<<"S","c","r","u","t","i","n","y">>, <<"p","e","r">>>>,
       <<<<"S","e","c","u","r","i","t","y">>, <<"i","n","t">>>>,
       <<<<"S","l","e","i","g","h","t"," ","o","f"," ","H","a","n","d">>, <<"a","g">>>>,
       <<<<"S","t","e","a","l","t","h">>, <<"a","g">>>>,
       <<<<"S","u","r","v","i","v","a","l">>, <<"p","e","r">>>>,
       <<<<"T","e","c","h","-","U","s","e">>, <<"i","n","t">>>>,
       <<<<"T","r","a","d","e">>, <<"i","n","t">>>> >>

TRAIT_CATEGORIES ==
    << <<<<"F","e","a","r">>, <<"m","e","n","t","a","l">>>>,
       <<<<"D","a","r","k"," ","S","i","g","h","t">>, <<"p","h","y","s","i","c","a","l">>>>,
       <<<<"U","n","n","a","t","u","r","a","l"," ","S","t","r","e","n","g","t","h">>, <<"p","h","y","s","i","c","a","l">>>>,
       <<<<"U","n","n","a","t","u","r","a","l"," ","T","o","u","g","h","n","e","s","s">>, <<"p","h","y","s","i","c","a","l">>>>,
       <<<<"U","n","n","a","t","u","r","a","l"," ","W","i","l","l","p","o","w","e","r">>, <<"m","e","n","t","a","l">>>>,
       <<<<"U","n","n","a","t","u","r","a","l"," ","A","g","i","l","i","t","y">>, <<"p","h","y","s","i","c","a","l">>>>,
       <<<<"F","r","o","m"," ","B","e","y","o","n","d">>, <<"w","a","r","p">>>>,
       <<<<"W","a","r","p","-","T","o","u","c","h","e","d">>, <<"w","a","r","p">>>>,
       <<<<"W","a","r","p"," ","I","n","s","t","a","b","i","l","i","t","y">>, <<"w","a","r","p">>>>,
       <<<<"R","e","g","e","n","e","r","a","t","i","o","n">>, <<"p","h","y","s","i","c","a","l">>>>,
       <<<<"M","a","c","h","i","n","e">>, <<"p","h","y","s","i","c","a","l">>>>,
       <<<<"S","i","z","e">>, <<"p","h","y","s","i","c","a","l">>>>,
       <<<<"F","l","y","e","r">>, <<"m","o","v","e","m","e","n","t">>>>,
       <<<<"B","e","s","t","i","a","l">>, <<"m","e","n","t","a","l">>>>,
       <<<<"Q","u","a","d","r","u","p","e","d">>, <<"m","o","v","e","m","e","n","t">>>>,
       <<<<"D","a","e","m","o","n","i","c">>, <<"w","a","r","p">>>>,
       <<<<"F","e","a","r","l","e","s","s">>, <<"m","e","n","t","a","l">>>>,
       <<<<"M","i","n","d","l","e","s","s">>, <<"m","e","n","t","a","l">>>>,
       <<<<"S","h","a","m","b","l","i","n","g">>, <<"m","o","v","e","m","e","n","t">>>>,
       <<<<"U","n","d","y","i","n","g">>, <<"w","a","r","p">>>>,
       <<<<"N","a","t","u","r","a","l"," ","A","r","m","o","r">>, <<"p","h","y","s","i","c","a","l">>>>,
       <<<<"N","a","t","u","r","a","l"," ","A","r","m","o","u","r">>, <<"p","h","y","s","i","c","a","l">>>>,
       <<<<"P","s","y","k","e","r">>, <<"w","a","r","p">>>>,
       <<<<"W","a","r","p"," ","S","e","e","r">>, <<"w","a","r","p">>>>,
       <<<<"M","e","c","h","a","n","i","c","u","s"," ","I","m","p","l","a","n","t","s">>, <<"p","h","y","s","i","c","a","l">>>>,
       <<<<"M","u","l","t","i","p","l","e"," ","A","r","m","s">>, <<"p","h","y","s","i","c","a","l">>>>,
       <<<<"L","a","t","e","n","t"," ","P","s","y","k","e","r">>, <<"w","a","r","p">>>>,
       <<<<"B","a","r","o","v","u","s"," ","N","a","t","i","v","e">>, <<"p","h","y","s","i","c","a","l">>>>,
       <<<<"D","i","s","t","u","r","b","i","n","g">>, <<"m","e","n","t","a","l">>>>,
       <<<<"W","a","r","p","-","A","n","i","m","a","t","e","d">>, <<"w","a","r","p">>>> >>

POWER_DISCIPLINES ==
    << <<<<"W","a","r","p"," ","F","i","r","e">>, <<"P","y","r","o","m","a","n","c","y">>>>,
       <<<<"T","e","l","e","k","i","n","e","s","i","s">>, <<"T","e","l","e","k","i","n","e","s","i","s">>>>,
       <<<<"T","e","l","e","k","i","n","e","t","i","c"," ","C","o","n","t","r","o","l">>, <<"T","e","l","e","k","i","n","e","s","i","s">>>>,
       <<<<"T","e","l","e","k","i","n","e","t","i","c"," ","S","t","o","r","m">>, <<"T","e","l","e","k","i","n","e","s","i","s">>>>,
       <<<<"D","o","m","i","n","a","t","i","o","n">>, <<"T","e","l","e","p","a","t","h","y">>>>,
       <<<<"P","s","y","c","h","i","c"," ","S","h","r","i","e","k">>, <<"T","e","l","e","p","a","t","h","y">>>>,
       <<<<"F","l","e","s","h"," ","W","a","r","p">>, <<"B","i","o","m","a","n","c","y">>>>,
       <<<<"W","a","r","p"," ","S","t","o","r","m">>, <<"W","a","r","p">>>>,
       <<<<"W","a","r","p"," ","L","i","g","h","t","n","i","n","g">>, <<"W","a","r","p">>>>,
       <<<<"I","r","o","n"," ","A","r","m">>, <<"B","i","o","m","a","n","c","y">>>>,
       <<<<"P","s","y","c","h","i","c"," ","S","c","r","e","a","m">>, <<"T","e","l","e","p","a","t","h","y">>>>,
       <<<<"T","r","u","e"," ","D","i","v","i","n","a","t","i","o","n">>, <<"D","i","v","i","n","a","t","i","o","n">>>> >>

IdPrefix == <<"s","k","i","1","1","t","a","1","e","n","t">>

\* format(n, "04d"): at least four digits, zero-padded on the left
Format04d(n) ==
    LET pad(ds) == IF Len(ds) >= 4 THEN ds ELSE [i \in 1..(4 - Len(ds)) |-> "0"] \o ds
    IN  pad(IntToStr(n))

\* a next_id without `global _id_counter`'s effect, the counter left as it
\* was: the fault that hands out one identifier twice
next_id_stuck(c) == [id |-> Str(IdPrefix \o Format04d(c + 1)), ctr |-> c]

\* next_id with the global _id_counter = c: the identifier returned and the
\* counter afterwards
next_id(c) == [id |-> Str(IdPrefix \o Format04d(c + 1)), ctr |-> c + 1]

\* a depth that counts "(" and never ")": the fault of a tokenizer that does
\* not leave a parenthetical group
DepthNoClose(s, i) == Cardinality({j \in 1..(i - 1) : s[j] = "("})

\* the value of depth when the loop of split_respecting_parens reaches
\* character i: one up for every "(" and one down for every ")" before it
DepthAt(s, i) ==
    Cardinality({j \in 1..(i - 1) : s[j] = "("}) - Cardinality({j \in 1..(i - 1) : s[j] = ")"})

\* the positions where the loop appends current to result and clears it:
\* char == ',' and depth == 0
SplitPoints(s) ==
    LET idx == [i \in 1..Len(s) |-> i]
        cut(i) == s[i] = "," /\ DepthAt(s, i) = 0
    IN  SelectSeq(idx, cut)

\* result after the loop and the trailing `if current:` append, every entry
\* stripped as it is appended
SplitEntries(s) ==
    LET entries(p) ==
            LET lo(k) == IF k = 1 THEN 1 ELSE p[k - 1] + 1
                cut == [k \in 1..Len(p) |-> Strip(SubSeq(s, lo(k), p[k] - 1))]
                last(tail) == IF tail # <<>> THEN Append(cut, Strip(tail)) ELSE cut
            IN  last(SubSeq(s, lo(Len(p) + 1), Len(s)))
    IN  entries(SplitPoints(s))

\* split_respecting_parens
split_respecting_parens(s) ==
    LET nonempty(r) == r # <<>>
    IN  SelectSeq(SplitEntries(s), nonempty)

\* `$` of the re module (no MULTILINE) before position q of s: the end of s,
\* or the final line break of s
AtEnd(s, q) == q = Len(s) + 1 \/ (q = Len(s) /\ s[q] = "\n")

\* number of characters of s from position i on that are in cs, up to the
\* first that is not
RunFrom(s, i, cs) == LeadCount(SubSeq(s, i, Len(s)), cs)

UpperSet == {UpperCase[i] : i \in DOMAIN UpperCase}
DigitSet == {DigitChars[i] : i \in DOMAIN DigitChars}

\* `\n[A-Z]{2,}[:\s]` at position q of s
LabelLineAt(s, q) ==
    LET label(r) == /\ r >= 2
                    /\ q + 1 + r <= Len(s)
                    /\ (s[q + 1 + r] = ":" \/ IsSpace(s[q + 1 + r]))
    IN  q <= Len(s) /\ s[q] = "\n" /\ label(RunFrom(s, q + 1, UpperSet))

\* `(?:\.\n|\n\n|\n[A-Z]{2,}[:\s]|$)` at position q of s
SectionEndAt(s, q) ==
    \/ StartsAt(s, q, <<".", "\n">>)
    \/ StartsAt(s, q, <<"\n", "\n">>)
    \/ LabelLineAt(s, q)
    \/ AtEnd(s, q)

\* the first index at which p occurs in s, 0 when it does not
Find(s, p) ==
    IF Contains(s, p) THEN Min({i \in 1..(Len(s) + 1) : StartsAt(s, i, p)}) ELSE 0

\* re.sub(r'\s+', ' ', s): every maximal run of white space becomes one ' '
CollapseSpaces(s) ==
    LET keep(i) == ~IsSpace(s[i]) \/ i = 1 \/ ~IsSpace(s[i - 1])
        idx == SelectSeq([i \in DOMAIN s |-> i], keep)
    IN  [n \in DOMAIN idx |-> IF IsSpace(s[idx[n]]) THEN " " ELSE s[idx[n]]]

\* group 1 of re.search(rf'{section_name}:\s*(.+?)(?:\.\n|\n\n|\n[A-Z]{2,}[:\s]|$)',
\* notes, re.DOTALL).  The search succeeds at the first 'NAME:' that is not
\* the end of the notes; \s* takes all the white space that leaves (.+?) a
\* character, and (.+?) then runs from that character to the first position,
\* at least one further on, where the section ends.
SectionMatch(notes, section_name) ==
    LET group(p) ==
            SubSeq(notes, p,
                   Min({x \in (p + 1)..(Len(notes) + 1) : SectionEndAt(notes, x)}) - 1)
        skip(p0, run, rest) == group(p0 + (IF run < rest THEN run ELSE rest - 1))
        from(i, p0) ==
            IF i = 0 \/ Len(notes) - p0 + 1 <= 0 THEN [ok |-> FALSE, g1 |-> <<>>]
            ELSE [ok |-> TRUE,
                  g1 |-> skip(p0, RunFrom(notes, p0, Spaces), Len(notes) - p0 + 1)]
        at(i) == from(i, i + Len(section_name) + 1)
    IN  at(Find(notes, section_name \o <<":">>))

\* extract_section
extract_section(notes, section_name) ==
    LET split(m) == IF ~m.ok THEN <<>>
                    ELSE split_respecting_parens(RStripDot(CollapseSpaces(Strip(m.g1))))
    IN  split(SectionMatch(notes, section_name))

\* group 1 of re.search(r'(?:LABEL1|LABEL2):\s*\n*(.*?)(?:\n(?:STOP1|...)|$)',
\* notes, re.DOTALL): from the first label on, the white space is skipped and
\* (.*?) runs to the first line that starts with a stop word, or to the end
BulletSectionMatch(notes, labels, stops) ==
    LET stopAt(x) == \E w \in stops : StartsAt(notes, x, <<"\n">> \o w)
        group(p) ==
            SubSeq(notes, p,
                   Min({x \in p..(Len(notes) + 1) : stopAt(x) \/ AtEnd(notes, x)}) - 1)
        after(i, l) == group(i + Len(l) + 1 + RunFrom(notes, i + Len(l) + 1, Spaces))
        first(i) == after(i, CHOOSE x \in labels : StartsAt(notes, i, x \o <<":">>))
        found(starts) == IF starts = {} THEN [ok |-> FALSE, g1 |-> <<>>]
                         ELSE [ok |-> TRUE, g1 |-> first(Min(starts))]
    IN  found({i \in 1..Len(notes) : \E l \in labels : StartsAt(notes, i, l \o <<":">>)})

\* re.split(r'BULLET\s*', s)
RECURSIVE SplitBullets(_)
SplitBullets(s) ==
    LET rest(k) == <<SubSeq(s, 1, k - 1)>>
                   \o SplitBullets(SubSeq(s, k + 1 + RunFrom(s, k + 1, Spaces), Len(s)))
    IN  IF \A i \in DOMAIN s : s[i] # Bullet THEN <<s>>
        ELSE rest(Min({i \in DOMAIN s : s[i] = Bullet}))

\* the pattern with a greedy first group, r'(.+)\s*[EMDASH ENDASH]\s*(.+)':
\* the fault that splits a bullet at its last dash
DashMatchGreedy(part) ==
    LET dashAfter(j) == j + 1 < Len(part) /\ part[j + 1] \in {EmDash, EnDash}
        groups(j0, after, run) ==
            [ok |-> TRUE, g1 |-> SubSeq(part, 1, j0),
             g2 |-> SubSeq(after, (IF run < Len(after) THEN run ELSE Len(after) - 1) + 1,
                           Len(after))]
        rest(j0, after) == groups(j0, after, RunFrom(after, 1, Spaces))
        dash(j0) == rest(j0, SubSeq(part, j0 + 2, Len(part)))
        found(J) == IF J = {} THEN [ok |-> FALSE, g1 |-> <<>>, g2 |-> <<>>]
                    ELSE dash(CHOOSE j \in J : \A k \in J : k <= j)
    IN  found({j \in 1..Len(part) : dashAfter(j)})

\* re.match(r'(.+?)\s*[EMDASH ENDASH]\s*(.+)', part, re.DOTALL): group 1 is the
\* shortest non-empty prefix that white space and a dash follow, with at least
\* one character after the dash; group 2 is what follows the dash, without
\* the white space that \s* can take from it
DashMatch(part) ==
    LET dashAfter(j, k) == j + k + 1 < Len(part) /\ part[j + k + 1] \in {EmDash, EnDash}
        groups(j0, after, run) ==
            [ok |-> TRUE, g1 |-> SubSeq(part, 1, j0),
             g2 |-> SubSeq(after, (IF run < Len(after) THEN run ELSE Len(after) - 1) + 1,
                           Len(after))]
        rest(j0, after) == groups(j0, after, RunFrom(after, 1, Spaces))
        dash(j0) == rest(j0, SubSeq(part, j0 + RunFrom(part, j0 + 1, Spaces) + 2, Len(part)))
        found(J) == IF J = {} THEN [ok |-> FALSE, g1 |-> <<>>, g2 |-> <<>>]
                    ELSE dash(Min(J))
    IN  found({j \in 1..Len(part) : dashAfter(j, RunFrom(part, j + 1, Spaces))})

\* abilities[name] = desc on an ordered list of <<name, desc>> pairs
PutPair(pairs, name, desc) ==
    IF \E i \in DOMAIN pairs : pairs[i][1] = name
    THEN [i \in DOMAIN pairs |-> IF pairs[i][1] = name THEN <<name, desc>> ELSE pairs[i]]
    ELSE Append(pairs, <<name, desc>>)

\* the loop over the bullets: every part with a dash becomes name -> description
RECURSIVE BulletPairs(_, _)
BulletPairs(parts, pairs) ==
    LET pair(m) == IF ~m.ok THEN pairs ELSE PutPair(pairs, Strip(m.g1), Strip(m.g2))
        step(part) == BulletPairs(Tail(parts),
                                  IF part = <<>> THEN pairs ELSE pair(DashMatch(part)))
    IN  IF parts = <<>> THEN pairs ELSE step(Strip(Head(parts)))

L_SpecialAbilities == <<"S","P","E","C","I","A","L"," ","A","B","I","L","I","T","I","E","S">>
L_SpecialRules == <<"S","P","E","C","I","A","L"," ","R","U","L","E","S">>
L_PsychicPowers == <<"P","S","Y","C","H","I","C"," ","P","O","W","E","R","S">>
AbilityStops ==
    {<<"C","A","S","T","L","E">>, <<"P","H","A","S","E">>, <<"D","E","S","T","R","U","C","T","I","O","N">>, <<"F","O","U","R">>, <<"G","M"," ">>, <<"T","A","C","T","I","C","S",":">>, <<"G","E","A","R",":">>}
PowerStops == {<<"S","P","E","C","I","A","L">>, <<"G","M"," ">>, <<"T","A","C","T","I","C","S",":">>}

\* extract_special_abilities: the ordered name -> description pairs
extract_special_abilities(notes) ==
    LET abilities(m) == IF ~m.ok THEN <<>> ELSE BulletPairs(SplitBullets(Strip(m.g1)), <<>>)
    IN  abilities(BulletSectionMatch(notes, {L_SpecialAbilities, L_SpecialRules},
                                     AbilityStops))

\* extract_psychic_powers
extract_psychic_powers(notes) ==
    LET powers(m) == IF ~m.ok THEN <<>> ELSE BulletPairs(SplitBullets(Strip(m.g1)), <<>>)
    IN  powers(BulletSectionMatch(notes, {L_PsychicPowers}, PowerStops))

\* the pattern with \d for \d+, `\+(\d)$`: the fault that knows only
\* one-digit advancements
AdvMatchOneDigit(entry) ==
    IF Len(entry) >= 2 /\ entry[Len(entry) - 1] = "+" /\ IsDigit(entry[Len(entry)])
    THEN Len(entry) - 1 ELSE 0

\* re.search(r'\+(\d+)$', entry): the index of the '+' that only digits
\* follow up to the end, 0 when there is none
AdvMatchStart(entry) ==
    LET ok(i) == /\ entry[i] = "+"
                 /\ \E e \in (i + 1)..Len(entry) :
                       /\ AtEnd(entry, e + 1)
                       /\ \A j \in (i + 1)..e : IsDigit(entry[j])
        first(I) == IF I = {} THEN 0 ELSE Min(I)
    IN  first({i \in DOMAIN entry : ok(i)})

\* a skill record
SkillItem(id, name, linked, advancement, isSpecialist, specialization) ==
    Dict(<< <<"_id", id>>,
            <<"name", Str(name)>>,
            <<"type", Str(S_skill)>>,
            <<"img", Str(<<"s","y","s","t","e","m","s","/","d","h","2","e","/","i","c","o","n","s","/","i","t","e","m","s","/","s","k","i","l","l",".","s","v","g">>)>>,
            <<"system", Dict(<< <<"description", EmptyStr>>,
                                <<"linkedCharacteristic", Str(linked)>>,
                                <<"advancement", Num(advancement)>>,
                                <<"isSpecialist", Bool(isSpecialist)>>,
                                <<"specialization", Str(specialization)>> >>)>> >>)

S_int == <<"i","n","t">>

\* the loop of make_skill over the comma-separated specializations
RECURSIVE SpecItems(_, _, _, _)
SpecItems(specs, base_name, advancement, c) ==
    LET item(spec, id) ==
            SkillItem(id, base_name \o <<" ", "(">> \o spec \o <<")">>,
                      MapGet(SKILL_CHARS, base_name, S_int), advancement, TRUE, spec)
        join(first, rest) == [items |-> <<first>> \o rest.items, ctr |-> rest.ctr]
        step(n) == join(item(Strip(Head(specs)), n.id),
                        SpecItems(Tail(specs), base_name, advancement, n.ctr))
    IN  IF specs = <<>> THEN [items |-> <<>>, ctr |-> c] ELSE step(next_id(c))

\* make_skill with _id_counter = c: the records returned and the counter
\* afterwards
make_skill(entry0, c) ==
    LET single(n, name, base, advancement, isSpecialist, spec) ==
            [items |-> <<SkillItem(n.id, name, MapGet(SKILL_CHARS, base, S_int),
                                   advancement, isSpecialist, spec)>>,
             ctr |-> n.ctr]
        specialist(name, advancement, base_name, spec_text) ==
            IF \E i \in DOMAIN spec_text : spec_text[i] = ","
            THEN SpecItems(SplitChar(spec_text, ","), base_name, advancement, c)
            ELSE single(next_id(c), name, base_name, advancement, TRUE, spec_text)
        named(name, advancement, spec_match) ==
            IF spec_match.ok
            THEN specialist(name, advancement, Strip(spec_match.g1), Strip(spec_match.g2))
            ELSE single(next_id(c), name, name, advancement, FALSE, <<>>)
        parsed(name, advancement) == named(name, advancement, ParenMatch(name, "any"))
        advanced(entry, a) ==
            parsed(IF a # 0 THEN Strip(SubSeq(entry, 1, a - 1)) ELSE entry,
                   IF a # 0
                   THEN DigitsToInt(FirstDigits(SubSeq(entry, a + 1, Len(entry)))) \div 10
                   ELSE 0)
        stripped(entry) == advanced(entry, AdvMatchStart(entry))
    IN  stripped(RStripDot(Strip(entry0)))

\* make_talent with _id_counter = c
make_talent(entry, c) ==
    LET talent(n, name) ==
            [ctr |-> n.ctr, item |->
             Dict(<< <<"_id", n.id>>,
                    <<"name", Str(name)>>,
                    <<"type", Str(S_talent)>>,
                    <<"img", Str(<<"s","y","s","t","e","m","s","/","d","h","2","e","/","i","c","o","n","s","/","i","t","e","m","s","/","t","a","l","e","n","t",".","s","v","g">>)>>,
                    <<"system", Dict(<< <<"description", EmptyStr>>,
                                        <<"tier", Num(1)>>,
                                        <<"aptitudes", EmptyList>>,
                                        <<"prerequisites", EmptyStr>>,
                                        <<"specialist",
                                          Bool(ParenMatch(name, "any").ok)>> >>)>> >>)]
    IN  talent(next_id(c), RStripDot(Strip(entry)))

\* the rating part of make_trait: has_rating, rating and category of a name
TraitRating(name) ==
    LET rated(has, rating, base) ==
            [has_rating |-> has, rating |-> rating,
             category |-> MapGet(TRAIT_CATEGORIES, base, <<>>)]
        inner(desc_match, inner_num) ==
            rated(inner_num # <<>>, IF inner_num # <<>> THEN DigitsToInt(inner_num) ELSE 0,
                  Strip(desc_match.g1))
        desc(desc_match) ==
            IF desc_match.ok THEN inner(desc_match, FirstDigits(Strip(desc_match.g2)))
            ELSE rated(FALSE, 0, name)
        times(x_match) ==
            IF x_match.ok THEN rated(TRUE, DigitsToInt(Tail(x_match.g2)), Strip(x_match.g1))
            ELSE desc(ParenMatch(name, "any"))
        num(num_match) ==
            IF num_match.ok THEN rated(TRUE, DigitsToInt(num_match.g2), Strip(num_match.g1))
            ELSE times(ParenMatch(name, "xdigits"))
    IN  num(ParenMatch(name, "digits"))

\* make_trait with _id_counter = c
make_trait(entry, description, c) ==
    LET trait(n, name, r) ==
            [ctr |-> n.ctr, item |->
             Dict(<< <<"_id", n.id>>,
                    <<"name", Str(name)>>,
                    <<"type", Str(S_trait)>>,
                    <<"img", Str(<<"s","y","s","t","e","m","s","/","d","h","2","e","/","i","c","o","n","s","/","d","e","f","a","u","l","t","-","i","c","o","n","s","/","t","r","a","i","t",".","s","v","g">>)>>,
                    <<"system", Dict(<< <<"description", Str(description)>>,
                                        <<"rules", EmptyList>>,
                                        <<"hasRating", Bool(r.has_rating)>>,
                                        <<"rating", Num(r.rating)>>,
                                        <<"category", Str(r.category)>> >>)>> >>)]
        named(name) == trait(next_id(c), name, TraitRating(name))
    IN  named(RStripDot(Strip(entry)))

\* make_power with _id_counter = c (focus_mod is always its default 0)
make_power(name, description, discipline, action, range_str, sustained, c) ==
    LET power(n) ==
            [ctr |-> n.ctr, item |->
             Dict(<< <<"_id", n.id>>,
                    <<"name", Str(name)>>,
                    <<"type", Str(S_power)>>,
                    <<"img", Str(<<"s","y","s","t","e","m","s","/","d","h","2","e","/","i","c","o","n","s","/","i","t","e","m","s","/","p","o","w","e","r",".","s","v","g">>)>>,
                    <<"system", Dict(<< <<"description", Str(description)>>,
                                        <<"discipline", Str(discipline)>>,
                                        <<"cost", Num(200)>>,
                                        <<"prerequisites", EmptyStr>>,
                                        <<"focusTest", Str(<<"w","p">>)>>,
                                        <<"focusModifier", Num(0)>>,
                                        <<"range", Str(range_str)>>,
                                        <<"sustained", sustained>>,
                                        <<"action", Str(action)>>,
                                        <<"subtype", EmptyStr>>,
                                        <<"opposed", Bool(FALSE)>> >>)>> >>)]
    IN  power(next_id(c))

\* build_notes without its `if threat:` part: the fault that restores the
\* notes without the threat rating line
build_notes_no_threat(original_actor) ==
    LET sys == Get(original_actor, "system", EmptyDict)
        move(movement) ==
            IF Truthy(movement)
            THEN << <<"\n">> \o <<"M","O","V","E","M","E","N","T",":"," ","H","a","l","f"," ">> \o Fmt(Get(movement, "half", Num(0)))
                    \o <<","," ","F","u","l","l"," ">> \o Fmt(Get(movement, "full", Num(0)))
                    \o <<","," ","C","h","a","r","g","e"," ">> \o Fmt(Get(movement, "charge", Num(0)))
                    \o <<","," ","R","u","n"," ">> \o Fmt(Get(movement, "run", Num(0))) >>
            ELSE <<>>
        prose(v) == IF Truthy(v) THEN <<Val(v)>> ELSE <<>>
        line(v) == IF Truthy(v) THEN << <<"\n">> \o Val(v) >> ELSE <<>>
        parts(s) == prose(Get(s, "description", EmptyStr))
                    \o move(Get(s, "movement", None))
                    \o line(Get(s, "notes", EmptyStr))
    IN  Str(Join(parts(sys), <<"\n">>))

\* build_notes
build_notes(original_actor) ==
    LET sys == Get(original_actor, "system", EmptyDict)
        threat(t) == IF Truthy(t)
                     THEN << <<"\n">> \o <<"T","H","R","E","A","T"," ","R","A","T","I","N","G",":"," ">> \o Fmt(t) >>
                     ELSE <<>>
        move(movement) ==
            IF Truthy(movement)
            THEN << <<"\n">> \o <<"M","O","V","E","M","E","N","T",":"," ","H","a","l","f"," ">> \o Fmt(Get(movement, "half", Num(0)))
                    \o <<","," ","F","u","l","l"," ">> \o Fmt(Get(movement, "full", Num(0)))
                    \o <<","," ","C","h","a","r","g","e"," ">> \o Fmt(Get(movement, "charge", Num(0)))
                    \o <<","," ","R","u","n"," ">> \o Fmt(Get(movement, "run", Num(0))) >>
            ELSE <<>>
        prose(v) == IF Truthy(v) THEN <<Val(v)>> ELSE <<>>
        line(v) == IF Truthy(v) THEN << <<"\n">> \o Val(v) >> ELSE <<>>
        parts(s) == prose(Get(s, "description", EmptyStr))
                    \o threat(Get(s, "threatRating", EmptyStr))
                    \o move(Get(s, "movement", None))
                    \o line(Get(s, "notes", EmptyStr))
    IN  Str(Join(parts(sys), <<"\n">>))

\* group 1 of re.search(r'(\d+m\s*(?:cone|radius)?)', desc): the first run of
\* digits that an 'm' follows, the white space after it, and 'cone' or 'radius'
\* when that comes next; <<>> when there is no match
RangeMatch(desc) ==
    LET ok(i) == /\ IsDigit(desc[i])
                 /\ i + RunFrom(desc, i, DigitSet) <= Len(desc)
                 /\ desc[i + RunFrom(desc, i, DigitSet)] = "m"
        unit(i0, w) ==
            SubSeq(desc, i0,
                   IF StartsAt(desc, w + 1, <<"c","o","n","e">>) THEN w + 4
                   ELSE IF StartsAt(desc, w + 1, <<"r","a","d","i","u","s">>) THEN w + 6
                   ELSE w)
        metre(i0, m) == unit(i0, m + RunFrom(desc, m + 1, Spaces))
        found(I) == IF I = {} THEN <<>>
                    ELSE metre(Min(I), Min(I) + RunFrom(desc, Min(I), DigitSet))
    IN  found({i \in DOMAIN desc : ok(i)})

\* the power record process_actor builds for one psychic power
PowerItem(pw_name, pw_desc, c) ==
    LET range(m) == IF m # <<>> THEN m
                    ELSE IF Contains(Lower(pw_desc), <<"t","o","u","c","h">>) THEN <<"T","o","u","c","h">>
                    ELSE <<>>
    IN  make_power(pw_name, pw_desc,
                   MapGet(POWER_DISCIPLINES, pw_name, <<>>),
                   IF Contains(pw_desc, <<"F","u","l","l"," ","A","c","t","i","o","n">>) THEN <<"F","u","l","l"," ","A","c","t","i","o","n">>
                   ELSE <<"H","a","l","f"," ","A","c","t","i","o","n">>,
                   range(RangeMatch(pw_desc)),
                   IF Contains(Lower(pw_desc), <<"s","u","s","t","a","i","n","e","d">>) THEN Str(<<"H","a","l","f"," ","A","c","t","i","o","n">>)
                   ELSE Bool(FALSE),
                   c)

\* name.split("(")[0].strip()
BaseBeforeParen(name) == Strip(SplitChar(name, "(")[1])

\* the loops of process_actor over a state st = [items |-> new_items,
\* ctr |-> _id_counter]
RECURSIVE SkillLoop(_, _)
SkillLoop(entries, st) ==
    LET step(r) == SkillLoop(Tail(entries), [items |-> st.items \o r.items, ctr |-> r.ctr])
    IN  IF entries = <<>> THEN st ELSE step(make_skill(Head(entries), st.ctr))

RECURSIVE TalentLoop(_, _)
TalentLoop(entries, st) ==
    LET step(r) == TalentLoop(Tail(entries),
                              [items |-> Append(st.items, r.item), ctr |-> r.ctr])
    IN  IF entries = <<>> THEN st ELSE step(make_talent(Head(entries), st.ctr))

RECURSIVE TraitLoop(_, _)
TraitLoop(entries, st) ==
    LET step(r) == TraitLoop(Tail(entries),
                             [items |-> Append(st.items, r.item), ctr |-> r.ctr])
    IN  IF entries = <<>> THEN st ELSE step(make_trait(Head(entries), <<>>, st.ctr))

\* the test without the comparison, `already = False`: the fault that
\* builds a trait from every special ability
AlreadyNever(items, sa_name) == FALSE

\* already = any(...): a trait of new_items has the base name of sa_name
AlreadyTrait(items, sa_name) ==
    \E i \in DOMAIN items :
       /\ At(items[i], "type") = Str(S_trait)
       /\ BaseBeforeParen(Val(At(items[i], "name"))) = BaseBeforeParen(sa_name)

RECURSIVE AbilityLoop(_, _)
AbilityLoop(pairs, st) ==
    LET add(r) == [items |-> Append(st.items, r.item), ctr |-> r.ctr]
        step(sa_name, sa_desc) ==
            AbilityLoop(Tail(pairs),
                        IF AlreadyTrait(st.items, sa_name) THEN st
                        ELSE add(make_trait(sa_name, sa_desc, st.ctr)))
    IN  IF pairs = <<>> THEN st ELSE step(Head(pairs)[1], Head(pairs)[2])

RECURSIVE PowerLoop(_, _)
PowerLoop(pairs, st) ==
    LET step(r) == PowerLoop(Tail(pairs),
                             [items |-> Append(st.items, r.item), ctr |-> r.ctr])
    IN  IF pairs = <<>> THEN st ELSE step(PowerItem(Head(pairs)[1], Head(pairs)[2], st.ctr))

L_Skills == <<"S","K","I","L","L","S">>
L_Talents == <<"T","A","L","E","N","T","S">>
L_Traits == <<"T","R","A","I","T","S">>

\* new_items of process_actor: skills, talents, traits, special abilities as
\* traits, psychic powers, in this order
NewItems(orig_notes, c0) ==
    LET n1 == SkillLoop(extract_section(orig_notes, L_Skills), [items |-> <<>>, ctr |-> c0])
        n2 == TalentLoop(extract_section(orig_notes, L_Talents), n1)
        n3 == TraitLoop(extract_section(orig_notes, L_Traits), n2)
        n4 == AbilityLoop(extract_special_abilities(orig_notes), n3)
    IN  PowerLoop(extract_psychic_powers(orig_notes), n4)

DerivedTypes == {Str(S_skill), Str(S_talent), Str(S_trait), Str(S_power)}

\* the last step with `current_actor["items"] = new_items`: the fault that
\* drops the weapons, armour and gear of the actor with the old records
ReplaceAllItems(current_actor, new_items) ==
    IF new_items = <<>> THEN current_actor
    ELSE Put(current_actor, "items", List(new_items))

\* the last step of process_actor: with new items, the items of the four
\* derived types are dropped and the new items appended
ReplaceDerived(current_actor, new_items) ==
    LET keep(i) == Get(i, "type", None) \notin DerivedTypes
        replace(a1) ==
            Put(a1, "items", List(SelectSeq(Val(At(a1, "items")), keep) \o new_items))
    IN  IF new_items = <<>> THEN current_actor
        ELSE replace(IF Has(current_actor, "items") THEN current_actor
                     ELSE Put(current_actor, "items", EmptyList))

\* current_actor["system"]["details"]["notes"] = full_notes
SetDetailsNotes(current_actor, full_notes) ==
    Put(current_actor, "system",
        Put(At(current_actor, "system"), "details",
            Put(At(At(current_actor, "system"), "details"), "notes", full_notes)))

\* process_actor raises KeyError when the current actor has no system.details
CanProcess(current_actor, original_actor) ==
    \/ ~Truthy(Get(Get(original_actor, "system", EmptyDict), "notes", EmptyStr))
    \/ /\ Has(current_actor, "system")
       /\ Has(At(current_actor, "system"), "details")

\* process_actor with _id_counter = c: the current actor afterwards, the
\* counter afterwards and the records created
process_actor(current_actor, original_actor, c) ==
    LET regenerate(st) ==
            [actor |-> ReplaceDerived(
                           SetDetailsNotes(current_actor, build_notes(original_actor)),
                           st.items),
             ctr |-> st.ctr,
             new_items |-> st.items]
        from(orig_notes) ==
            IF ~Truthy(orig_notes)
            THEN [actor |-> current_actor, ctr |-> c, new_items |-> <<>>]
            ELSE regenerate(NewItems(Val(orig_notes), c))
    IN  from(Get(Get(original_actor, "system", EmptyDict), "notes", EmptyStr))

----------------------------------------------------------------------------
(* The data the scripts are run on *)

\* the longest history of transforms applied to one record
MaxOps == 6
\* the most actors one actor file holds in a run of add-actor-items.py
MaxActorsPerFile == 2
\* the longest text, in characters, the text functions are applied to
MaxLen == 5

\* data/actors/*.json as of the pre-fix revision: actors in the legacy
\* shape, in the current shape and in between, with and without notes,
\* embedded items and template fields
ActorList ==
    << Dict(<<
         <<"name", Str(<<"W","a","r","p"," ","D","a","e","m","o","n">>)>>,
         <<"type", Str(<<"n","p","c">>)>>,
         <<"system", Dict(<<
           <<"description", Str(<<"A"," ","d","a","e","m","o","n",".">>)>>,
           <<"threatRating", Str(<<"E","x","t","r","e","m","i","s">>)>>,
           <<"movement", Dict(<<
             <<"half", Num(4)>>,
             <<"full", Num(8)>>,
             <<"charge", Num(12)>>,
             <<"run", Num(24)>> >>)>>,
           <<"characteristics", Dict(<<
             <<"ws", Dict(<<
               <<"value", Num(45)>> >>)>>,
             <<"t", Num(40)>> >>)>>,
           <<"armour", Dict(<<
             <<"value", Num(3)>> >>)>>,
           <<"notes", Str(<<"S","K","I","L","L","S",":"," ","F","o","r","b","i","d","d","e","n"," ","L","o","r","e"," ","(","W","a","r","p",","," ","D","a","e","m","o","n","o","l","o","g","y",")"," ","+","2","0",","," ","D","o","d","g","e","\n","T","R","A","I","T","S",":"," ","F","e","a","r"," ","(","4",")",","," ","R","e","g","e","n","e","r","a","t","i","o","n","\n","\n","S","P","E","C","I","A","L"," ","A","B","I","L","I","T","I","E","S",":","\n","BULLET"," ","R","e","g","e","n","e","r","a","t","i","o","n"," ","EMDASH"," ","r","e","g","r","o","w","s","\n","BULLET"," ","W","a","r","p"," ","B","o","l","t"," ","EMDASH"," ","2","0","m"," ","a","t","t","a","c","k","\n","T","A","C","T","I","C","S",":"," ","c","h","a","r","g","e">>)>> >>)>>,
         <<"items", List(<<
           Dict(<<
             <<"name", Str(<<"S","w","o","r","d">>)>>,
             <<"type", Str(<<"w","e","a","p","o","n">>)>>,
             <<"system", Dict(<<
               <<"class", Str(<<"M","e","l","e","e">>)>>,
               <<"damage", Str(<<"1","d","1","0">>)>>,
               <<"damageType", Str(<<"R">>)>>,
               <<"special", Str(<<"B","a","l","a","n","c","e","d">>)>> >>)>> >>) >>)>> >>),
       Dict(<<
         <<"name", Str(<<"G","u","a","r","d">>)>>,
         <<"type", Str(<<"n","p","c">>)>>,
         <<"system", Dict(<<
           <<"threatRating", Str(<<"M","i","n","o","r","i","s">>)>>,
           <<"armour", Dict(<<
             <<"value", Num(4)>> >>)>>,
           <<"notes", Str(<<"S","K","I","L","L","S",":"," ","A","w","a","r","e","n","e","s","s"," ","+","1","0",".","\n","T","A","L","E","N","T","S",":"," ","S","w","i","f","t"," ","A","t","t","a","c","k",".","\n","T","R","A","I","T","S",":"," ","S","i","z","e"," ","(","H","u","l","k","i","n","g",")">>)>> >>)>>,
         <<"items", List(<<
           Dict(<<
             <<"name", Str(<<"F","l","a","k">>)>>,
             <<"type", Str(<<"a","r","m","o","u","r">>)>>,
             <<"system", Dict(<<
               <<"ap", Dict(<<
                 <<"head", Num(2)>>,
                 <<"body", Num(4)>> >>)>> >>)>> >>),
           Dict(<<
             <<"name", Str(<<"L","a","s","g","u","n">>)>>,
             <<"type", Str(<<"w","e","a","p","o","n">>)>>,
             <<"system", Dict(<<
               <<"class", Str(<<"B","a","s","i","c">>)>>,
               <<"rateOfFire", Str(<<"S","/","3","/","-">>)>>,
               <<"clip", Num(60)>>,
               <<"damage", Str(<<"1","d","1","0","+","3">>)>>,
               <<"damageType", Str(<<"E">>)>>,
               <<"special", Str(<<"R","e","l","i","a","b","l","e">>)>> >>)>> >>),
           Dict(<<
             <<"name", Str(<<"C","e","l","l">>)>>,
             <<"type", Str(<<"a","m","m","u","n","i","t","i","o","n">>)>>,
             <<"system", Dict(<<
               <<"quantity", Num(3)>> >>)>> >>) >>)>> >>),
       Dict(<<
         <<"name", Str(<<"P","s","y","k","e","r">>)>>,
         <<"type", Str(<<"n","p","c">>)>>,
         <<"system", Dict(<<
           <<"fate", Dict(<<
             <<"value", Num(1)>>,
             <<"max", Num(2)>> >>)>>,
           <<"fatigue", Num(0)>>,
           <<"corruption", Num(7)>>,
           <<"insanity", Num(0)>>,
           <<"influence", Num(0)>>,
           <<"xp", Dict(<<
             <<"total", Num(100)>>,
             <<"spent", Num(50)>> >>)>>,
           <<"aptitudes", EmptyList>>,
           <<"defeated", Bool(FALSE)>>,
           <<"eliteAdvances", List(<<
             Str(<<"p","s","y","k","e","r">>) >>)>>,
           <<"notes", Str(<<"P","S","Y","C","H","I","C"," ","P","O","W","E","R","S",":","\n","BULLET"," ","W","a","r","p"," ","F","i","r","e"," ","EMDASH"," ","F","u","l","l"," ","A","c","t","i","o","n",","," ","2","0","m"," ","c","o","n","e",","," ","s","u","s","t","a","i","n","e","d",".","\n","BULLET"," ","D","o","m","i","n","a","t","i","o","n"," ","EMDASH"," ","t","o","u","c","h","\n","G","M"," ","a","d","v","i","c","e">>)>> >>)>> >>),
       Dict(<<
         <<"name", Str(<<"V","i","l","l","a","g","e","r">>)>>,
         <<"type", Str(<<"n","p","c">>)>>,
         <<"system", Dict(<<
           <<"description", Str(<<"V","i","l","l","a","g","e","r",".">>)>>,
           <<"notes", Str(<<"J","u","s","t"," ","p","r","o","s","e",".">>)>> >>)>>,
         <<"items", List(<<
           Dict(<<
             <<"name", Str(<<"F","e","a","r"," ","(","1",")">>)>>,
             <<"type", Str(<<"t","r","a","i","t">>)>>,
             <<"system", Dict(<<
               <<"rating", Num(1)>> >>)>> >>),
           Dict(<<
             <<"name", Str(<<"O","l","d"," ","H","a","b","i","t">>)>>,
             <<"type", Str(<<"t","r","a","i","t">>)>>,
             <<"system", EmptyDict>> >>),
           Dict(<<
             <<"name", Str(<<"U","n","d","y","i","n","g">>)>>,
             <<"type", Str(<<"t","r","a","i","t">>)>>,
             <<"system", Dict(<<
               <<"immunities", List(<<
                 Str(<<"c","o","l","d">>) >>)>> >>)>> >>),
           Dict(<<
             <<"name", Str(<<"R","o","p","e">>)>>,
             <<"type", Str(<<"g","e","a","r">>)>>,
             <<"system", Dict(<<
               <<"weight", Num(2)>> >>)>> >>) >>)>> >>),
       Dict(<<
         <<"name", Str(<<"B","r","u","t","e">>)>>,
         <<"type", Str(<<"n","p","c">>)>>,
         <<"system", Dict(<<
           <<"notes", Str(<<"T","R","A","I","T","S",":"," ","F","e","a","r"," ","(","2",")",","," ","S","i","z","e"," ","(","H","u","l","k","i","n","g",")">>)>> >>)>>,
         <<"items", List(<<
           Dict(<<
             <<"name", Str(<<"F","e","a","r"," ","(","1",")">>)>>,
             <<"type", Str(<<"t","r","a","i","t">>)>>,
             <<"system", Dict(<<
               <<"rating", Num(1)>> >>)>> >>),
           Dict(<<
             <<"name", Str(<<"O","l","d"," ","H","a","b","i","t">>)>>,
             <<"type", Str(<<"t","r","a","i","t">>)>>,
             <<"system", EmptyDict>> >>),
           Dict(<<
             <<"name", Str(<<"U","n","d","y","i","n","g">>)>>,
             <<"type", Str(<<"t","r","a","i","t">>)>>,
             <<"system", Dict(<<
               <<"immunities", List(<<
                 Str(<<"c","o","l","d">>) >>)>> >>)>> >>) >>)>> >>),
       Dict(<<
         <<"name", Str(<<"S","i","l","e","n","t">>)>>,
         <<"type", Str(<<"n","p","c">>)>>,
         <<"system", Dict(<<
           <<"description", Str(<<"S","i","l","e","n","t",".">>)>>,
           <<"threatRating", Str(<<"M","i","n","o","r","i","s">>)>>,
           <<"movement", Dict(<<
             <<"half", Num(3)>> >>)>>,
           <<"armour", Dict(<<
             <<"head", Num(1)>>,
             <<"rightArm", Num(1)>>,
             <<"leftArm", Num(1)>>,
             <<"body", Num(2)>>,
             <<"rightLeg", Num(1)>>,
             <<"leftLeg", Num(1)>> >>)>> >>)>> >>),
       Dict(<<
         <<"name", Str(<<"B","a","r","e">>)>>,
         <<"system", EmptyDict>> >>),
       Dict(<<
         <<"name", Str(<<"M","o","d","e","r","n">>)>>,
         <<"type", Str(<<"n","p","c">>)>>,
         <<"system", Dict(<<
           <<"characteristics", Dict(<<
             <<"ws", Dict(<<
               <<"base", Num(30)>>,
               <<"advances", Num(1)>> >>)>> >>)>>,
           <<"armour", Dict(<<
             <<"head", Num(2)>>,
             <<"rightArm", Num(2)>>,
             <<"leftArm", Num(2)>>,
             <<"body", Num(2)>>,
             <<"rightLeg", Num(2)>>,
             <<"leftLeg", Num(2)>> >>)>>,
           <<"description", Str(<<"K","e","p","t",".">>)>>,
           <<"details", Dict(<<
             <<"homeworld", Str(<<>>)>>,
             <<"background", Str(<<>>)>>,
             <<"role", Str(<<"E","l","i","t","e">>)>>,
             <<"divination", Str(<<>>)>>,
             <<"notes", Str(<<"K","e","p","t",".">>)>> >>)>>,
           <<"defeated", Bool(TRUE)>>,
           <<"aptitudes", List(<<
             Str(<<"w","s">>) >>)>> >>)>>,
         <<"items", List(<<
           Dict(<<
             <<"name", Str(<<"A","u","t","o","g","u","n">>)>>,
             <<"type", Str(<<"w","e","a","p","o","n">>)>>,
             <<"system", Dict(<<
               <<"description", Str(<<>>)>>,
               <<"class", Str(<<"r","a","n","g","e","d">>)>>,
               <<"range", Num(90)>>,
               <<"rof", Dict(<<
                 <<"single", Bool(TRUE)>>,
                 <<"semi", Num(3)>>,
                 <<"full", Num(10)>> >>)>>,
               <<"damage", Dict(<<
                 <<"formula", Str(<<"1","d","1","0","+","3">>)>>,
                 <<"type", Str(<<"i","m","p","a","c","t">>)>>,
                 <<"bonus", Num(0)>> >>)>>,
               <<"magazine", Dict(<<
                 <<"value", Num(5)>>,
                 <<"max", Num(10)>> >>)>>,
               <<"craftsmanship", Str(<<"g","o","o","d">>)>>,
               <<"loadType", Str(<<"m","a","g","a","z","i","n","e">>)>> >>)>> >>),
           Dict(<<
             <<"name", Str(<<"M","e","s","h">>)>>,
             <<"type", Str(<<"a","r","m","o","u","r">>)>>,
             <<"system", Dict(<<
               <<"locations", Dict(<<
                 <<"head", Num(2)>>,
                 <<"rightArm", Num(2)>>,
                 <<"leftArm", Num(2)>>,
                 <<"body", Num(2)>>,
                 <<"rightLeg", Num(2)>>,
                 <<"leftLeg", Num(2)>> >>)>>,
               <<"craftsmanship", Str(<<"p","o","o","r">>)>> >>)>> >>) >>)>> >>),
       Dict(<<
         <<"name", Str(<<"K","n","i","g","h","t">>)>>,
         <<"type", Str(<<"n","p","c">>)>>,
         <<"system", Dict(<<
           <<"armour", Dict(<<
             <<"head", Num(5)>>,
             <<"rightArm", Num(5)>>,
             <<"leftArm", Num(5)>>,
             <<"body", Num(5)>>,
             <<"rightLeg", Num(5)>>,
             <<"leftLeg", Num(5)>> >>)>> >>)>>,
         <<"items", List(<<
           Dict(<<
             <<"name", Str(<<"P","l","a","t","e">>)>>,
             <<"type", Str(<<"a","r","m","o","u","r">>)>>,
             <<"system", Dict(<<
               <<"locations", Dict(<<
                 <<"head", Num(1)>>,
                 <<"body", Num(3)>> >>)>> >>)>> >>) >>)>> >>),
       Dict(<<
         <<"name", Str(<<"S","c","o","u","t">>)>>,
         <<"type", Str(<<"n","p","c">>)>>,
         <<"system", Dict(<<
           <<"notes", Str(<<"T","A","L","E","N","T","S",":"," ","S","w","i","f","t"," ","A","t","t","a","c","k">>)>> >>)>>,
         <<"items", List(<<
           Dict(<<
             <<"name", Str(<<"P","i","s","t","o","l">>)>>,
             <<"type", Str(<<"w","e","a","p","o","n">>)>>,
             <<"system", Dict(<<
               <<"class", Str(<<"r","a","n","g","e","d">>)>>,
               <<"clip", Dict(<<
                 <<"value", Num(1)>>,
                 <<"max", Num(2)>> >>)>>,
               <<"magazine", Dict(<<
                 <<"value", Num(3)>>,
                 <<"max", Num(4)>> >>)>> >>)>> >>) >>)>> >>) >>

Actors == {ActorList[i] : i \in DOMAIN ActorList}

\* data/items/*.json and the other standalone files: <<file's item type, item>>
ItemList ==
    << <<<<"w","e","a","p","o","n">>, Dict(<<
         <<"name", Str(<<"L","a","s","g","u","n">>)>>,
         <<"type", Str(<<"w","e","a","p","o","n">>)>>,
         <<"system", Dict(<<
           <<"class", Str(<<"B","a","s","i","c">>)>>,
           <<"rateOfFire", Str(<<"S","/","3","/","-">>)>>,
           <<"clip", Num(60)>>,
           <<"damage", Str(<<"1","d","1","0","+","3">>)>>,
           <<"damageType", Str(<<"E">>)>>,
           <<"special", Str(<<"R","e","l","i","a","b","l","e",","," ","A","c","c","u","r","a","t","e">>)>>,
           <<"range", Num(100)>> >>)>> >>)>>,
       <<<<"w","e","a","p","o","n">>, Dict(<<
         <<"name", Str(<<"S","t","u","b">>)>>,
         <<"type", Str(<<"w","e","a","p","o","n">>)>>,
         <<"system", Dict(<<
           <<"class", Str(<<"r","a","n","g","e","d">>)>>,
           <<"clip", Dict(<<
             <<"value", Num(8)>>,
             <<"max", Num(8)>> >>)>>,
           <<"rof", Dict(<<
             <<"single", Bool(TRUE)>>,
             <<"semi", Num(0)>>,
             <<"full", Num(0)>> >>)>> >>)>> >>)>>,
       <<<<"w","e","a","p","o","n">>, Dict(<<
         <<"name", Str(<<"H","e","l","l","g","u","n">>)>>,
         <<"type", Str(<<"w","e","a","p","o","n">>)>>,
         <<"system", Dict(<<
           <<"class", Str(<<"r","a","n","g","e","d">>)>>,
           <<"magazine", Dict(<<
             <<"value", Num(5)>>,
             <<"max", Num(10)>> >>)>>,
           <<"craftsmanship", Str(<<"g","o","o","d">>)>>,
           <<"weaponGroup", Str(<<"l","a","s">>)>>,
           <<"loadedAmmoId", Str(<<"a","1">>)>>,
           <<"loadedMagazineName", Str(<<"m">>)>>,
           <<"loadedRounds", List(<<
             Dict(<<
               <<"name", Str(<<"r">>)>> >>) >>)>>,
           <<"reloadProgress", Num(1)>>,
           <<"rules", List(<<
             Dict(<<
               <<"key", Str(<<"x">>)>> >>) >>)>>,
           <<"loadType", Str(<<"i","n","d","i","v","i","d","u","a","l">>)>> >>)>> >>)>>,
       <<<<"w","e","a","p","o","n">>, Dict(<<
         <<"name", Str(<<"P","i","s","t","o","l">>)>>,
         <<"type", Str(<<"w","e","a","p","o","n">>)>>,
         <<"system", Dict(<<
           <<"class", Str(<<"r","a","n","g","e","d">>)>>,
           <<"clip", Dict(<<
             <<"value", Num(1)>>,
             <<"max", Num(2)>> >>)>>,
           <<"magazine", Dict(<<
             <<"value", Num(3)>>,
             <<"max", Num(4)>> >>)>> >>)>> >>)>>,
       <<<<"w","e","a","p","o","n">>, Dict(<<
         <<"name", Str(<<"K","n","i","f","e">>)>>,
         <<"type", Str(<<"w","e","a","p","o","n">>)>>,
         <<"system", Dict(<<
           <<"class", Str(<<"m","e","l","e","e">>)>>,
           <<"rof", Dict(<<
             <<"single", Bool(FALSE)>>,
             <<"semi", Num(0)>>,
             <<"full", Num(0)>> >>)>> >>)>> >>)>>,
       <<<<"w","e","a","p","o","n">>, Dict(<<
         <<"name", Str(<<"D","a","r","t">>)>>,
         <<"type", Str(<<"w","e","a","p","o","n">>)>>,
         <<"system", Dict(<<
           <<"class", Str(<<"t","h","r","o","w","n">>)>> >>)>> >>)>>,
       <<<<"w","e","a","p","o","n">>, Dict(<<
         <<"name", Str(<<"H","u","s","k">>)>>,
         <<"type", Str(<<"w","e","a","p","o","n">>)>>,
         <<"system", Dict(<<
           <<"class", Str(<<"r","a","n","g","e","d">>)>>,
           <<"magazine", Dict(<<
             <<"max", Num(3)>> >>)>>,
           <<"craftsmanship", Str(<<>>)>>,
           <<"weaponGroup", Str(<<>>)>>,
           <<"loadedRounds", EmptyList>>,
           <<"reloadProgress", Num(0)>>,
           <<"rules", EmptyList>>,
           <<"loadType", Str(<<>>)>> >>)>> >>)>>,
       <<<<"w","e","a","p","o","n">>, Dict(<<
         <<"name", Str(<<"B","l","a","n","k">>)>>,
         <<"type", Str(<<"w","e","a","p","o","n">>)>>,
         <<"system", EmptyDict>> >>)>>,
       <<<<"w","e","a","p","o","n">>, Dict(<<
         <<"name", Str(<<"S","t","r","a","y">>)>>,
         <<"type", Str(<<"w","e","a","p","o","n">>)>> >>)>>,
       <<<<"a","r","m","o","u","r">>, Dict(<<
         <<"name", Str(<<"F","l","a","k">>)>>,
         <<"type", Str(<<"a","r","m","o","u","r">>)>>,
         <<"system", Dict(<<
           <<"ap", Dict(<<
             <<"head", Num(2)>>,
             <<"body", Num(4)>> >>)>> >>)>> >>)>>,
       <<<<"a","r","m","o","u","r">>, Dict(<<
         <<"name", Str(<<"M","e","s","h">>)>>,
         <<"type", Str(<<"a","r","m","o","u","r">>)>>,
         <<"system", Dict(<<
           <<"locations", Dict(<<
             <<"head", Num(2)>>,
             <<"rightArm", Num(2)>>,
             <<"leftArm", Num(2)>>,
             <<"body", Num(3)>>,
             <<"rightLeg", Num(2)>>,
             <<"leftLeg", Num(2)>> >>)>>,
           <<"craftsmanship", Str(<<"p","o","o","r">>)>>,
           <<"availability", Str(<<"r","a","r","e">>)>> >>)>> >>)>>,
       <<<<"a","r","m","o","u","r">>, Dict(<<
         <<"name", Str(<<"R","a","g","s">>)>>,
         <<"type", Str(<<"a","r","m","o","u","r">>)>>,
         <<"system", EmptyDict>> >>)>>,
       <<<<"g","e","a","r">>, Dict(<<
         <<"name", Str(<<"R","o","p","e">>)>>,
         <<"type", Str(<<"g","e","a","r">>)>>,
         <<"system", Dict(<<
           <<"description", Str(<<"d">>)>>,
           <<"weight", Num(2)>>,
           <<"quantity", Num(3)>>,
           <<"availability", Str(<<"c","o","m","m","o","n">>)>> >>)>> >>)>>,
       <<<<"g","e","a","r">>, Dict(<<
         <<"name", Str(<<"C","h","a","r","m">>)>>,
         <<"type", Str(<<"g","e","a","r">>)>>,
         <<"system", Dict(<<
           <<"craftsmanship", Str(<<>>)>> >>)>> >>)>>,
       <<<<"a","m","m","u","n","i","t","i","o","n">>, Dict(<<
         <<"name", Str(<<"C","e","l","l">>)>>,
         <<"type", Str(<<"a","m","m","u","n","i","t","i","o","n">>)>>,
         <<"system", Dict(<<
           <<"quantity", Num(3)>>,
           <<"weaponType", Str(<<"l","a","s">>)>> >>)>> >>)>>,
       <<<<"a","m","m","u","n","i","t","i","o","n">>, Dict(<<
         <<"name", Str(<<"S","h","e","l","l","s">>)>>,
         <<"type", Str(<<"a","m","m","u","n","i","t","i","o","n">>)>>,
         <<"system", Dict(<<
           <<"capacity", Num(0)>>,
           <<"quantity", Num(5)>>,
           <<"craftsmanship", Str(<<"b","e","s","t">>)>>,
           <<"loadedRounds", List(<<
             Dict(<<
               <<"name", Str(<<"r">>)>> >>) >>)>>,
           <<"forWeapon", Str(<<"x">>)>> >>)>> >>)>>,
       <<<<"a","m","m","u","n","i","t","i","o","n">>, Dict(<<
         <<"name", Str(<<"L","o","o","s","e">>)>>,
         <<"type", Str(<<"a","m","m","u","n","i","t","i","o","n">>)>>,
         <<"system", EmptyDict>> >>)>>,
       <<<<"t","r","a","i","t">>, Dict(<<
         <<"name", Str(<<"L","a","t","e","n","t"," ","P","s","y","k","e","r">>)>>,
         <<"type", Str(<<"t","r","a","i","t">>)>>,
         <<"system", Dict(<<
           <<"description", Str(<<"d">>)>>,
           <<"notes", Str(<<"n">>)>> >>)>> >>)>>,
       <<<<"t","r","a","i","t">>, Dict(<<
         <<"name", Str(<<"S","t","r","i","g","o","i","'","s"," ","C","u","r","s","e">>)>>,
         <<"type", Str(<<"t","r","a","i","t">>)>>,
         <<"system", Dict(<<
           <<"description", Str(<<"a"," ","c","o","l","d"," ","b">>)>>,
           <<"notes", Str(<<"c","o","l","d">>)>> >>)>> >>)>>,
       <<<<"t","r","a","i","t">>, Dict(<<
         <<"name", Str(<<"M","a","r","k","e","d">>)>>,
         <<"type", Str(<<"t","r","a","i","t">>)>>,
         <<"system", Dict(<<
           <<"rules", List(<<
             Dict(<<
               <<"key", Str(<<"x">>)>> >>) >>)>>,
           <<"hasRating", Bool(TRUE)>>,
           <<"rating", Num(2)>>,
           <<"category", Str(<<"c","a","m","p","a","i","g","n">>)>>,
           <<"immunities", List(<<
             Str(<<"f","e","a","r">>) >>)>> >>)>> >>)>>,
       <<<<"t","r","a","i","t">>, Dict(<<
         <<"name", Str(<<"L","o","s","t">>)>>,
         <<"type", Str(<<"t","r","a","i","t">>)>> >>)>>,
       <<<<"o","b","j","e","c","t","i","v","e">>, Dict(<<
         <<"name", Str(<<"F","i","n","d">>)>>,
         <<"type", Str(<<"o","b","j","e","c","t","i","v","e">>)>>,
         <<"system", Dict(<<
           <<"issuer", Str(<<"I","n","q","u","i","s","i","t","o","r">>)>> >>)>> >>)>>,
       <<<<"o","b","j","e","c","t","i","v","e">>, Dict(<<
         <<"name", Str(<<"H","o","l","d">>)>>,
         <<"type", Str(<<"o","b","j","e","c","t","i","v","e">>)>>,
         <<"system", Dict(<<
           <<"assignedBy", Str(<<"C","a","p","t","a","i","n">>)>> >>)>> >>)>>,
       <<<<"o","b","j","e","c","t","i","v","e">>, Dict(<<
         <<"name", Str(<<"B","u","r","n">>)>>,
         <<"type", Str(<<"o","b","j","e","c","t","i","v","e">>)>>,
         <<"system", Dict(<<
           <<"issuer", Str(<<"A">>)>>,
           <<"assignedBy", Str(<<"B">>)>> >>)>> >>)>>,
       <<<<"o","b","j","e","c","t","i","v","e">>, Dict(<<
         <<"name", Str(<<"F","l","e","e">>)>>,
         <<"type", Str(<<"o","b","j","e","c","t","i","v","e">>)>>,
         <<"system", Dict(<<
           <<"description", Str(<<"g","o">>)>>,
           <<"notes", Str(<<"n","o","w">>)>> >>)>> >>)>>,
       <<<<"o","b","j","e","c","t","i","v","e">>, Dict(<<
         <<"name", Str(<<"W","a","i","t">>)>>,
         <<"type", Str(<<"o","b","j","e","c","t","i","v","e">>)>>,
         <<"system", Dict(<<
           <<"issuer", Str(<<>>)>>,
           <<"timestamp", Num(5)>>,
           <<"completedTimestamp", Num(0)>>,
           <<"scope", Str(<<"p","e","r","s","o","n","a","l">>)>> >>)>> >>)>> >>

Items == {ItemList[i] : i \in DOMAIN ItemList}

\* the item types fix-actor-data.py's main processes as standalone files
FixedKinds == {S_weapon, S_armour, S_gear, S_ammunition}
\* the item types refactor-data.py's main processes as standalone files
RefactoredKinds == {S_weapon, S_armour, S_gear, S_ammunition, S_trait, S_objective}

S_actor == <<"a","c","t","o","r">>
OpFix == "fix"
OpAdd == "add"
OpRefactor == "refactor"

----------------------------------------------------------------------------
(* Spec: one record of a data file and the scripts run on its file, in any *)
(* order and any number of times                                            *)

Init ==
    /\ \E r \in {<<S_actor, a>> : a \in Actors} \cup Items :
          /\ kind = r[1]
          /\ doc = r[2]
    /\ original = doc
    /\ hist = <<>>
    /\ trace = <<doc>>
    /\ id_counter = 0
    /\ created = <<>>
    /\ files = <<>>
    /\ pos = <<>>
    /\ text = <<>>
    /\ out = <<>>

\* what a script run on the record's file leaves: the record written back
Stored(op, new_doc) ==
    /\ doc' = new_doc
    /\ hist' = Append(hist, op)
    /\ trace' = Append(trace, new_doc)
    /\ UNCHANGED <<kind, original, files, pos, text, out>>

\* fix-actor-data.py on an actor file: process_file
FixActor ==
    /\ kind = S_actor
    /\ Len(hist) < MaxOps
    /\ Stored(OpFix, fix_actor(doc))
    /\ UNCHANGED <<id_counter, created>>

\* add-actor-items.py on an actor file: a new process, _id_counter = 0, and
\* process_actor against the original; a KeyError ends the run before the
\* file is written
AddActorItems ==
    /\ kind = S_actor
    /\ Len(hist) < MaxOps
    /\ CanProcess(doc, original)
    /\ \E r \in {process_actor(doc, original, 0)} :
          /\ Stored(OpAdd, r.actor)
          /\ id_counter' = r.ctr
          /\ created' = r.new_items

\* refactor-data.py on an actor file: process_actors_file
RefactorActor ==
    /\ kind = S_actor
    /\ Len(hist) < MaxOps
    /\ Stored(OpRefactor, refactor_actor(doc))
    /\ UNCHANGED <<id_counter, created>>

\* fix-actor-data.py on a standalone items file: process_items_file
FixItem ==
    /\ kind \in FixedKinds
    /\ Len(hist) < MaxOps
    /\ Stored(OpFix, fix_standalone_item(doc))
    /\ UNCHANGED <<id_counter, created>>

\* refactor-data.py on a standalone items file: process_items_file
RefactorItem ==
    /\ kind \in RefactoredKinds
    /\ Len(hist) < MaxOps
    /\ Stored(OpRefactor, refactor_standalone_item(doc, kind))
    /\ UNCHANGED <<id_counter, created>>

Next == FixActor \/ AddActorItems \/ RefactorActor \/ FixItem \/ RefactorItem

Spec == Init /\ [][Next]_vars

----------------------------------------------------------------------------
(* SpecRun: one run of add-actor-items.py, main() over the two actor files *)

\* an actor of a run: the actor as the file holds it and the same actor in
\* the pre-fix revision (None: the pre-fix file does not hold it)
RunActors ==
    { [cur |-> fix_actor(ActorList[1]), orig |-> ActorList[1]],
      [cur |-> fix_actor(ActorList[2]), orig |-> ActorList[2]],
      [cur |-> ActorList[5], orig |-> ActorList[5]],
      [cur |-> fix_actor(ActorList[7]), orig |-> None] }

\* the contents an actor file can have: 1..MaxActorsPerFile actors
RunFiles == UNION {[1..n -> RunActors] : n \in 1..MaxActorsPerFile}

Current(f) == [i \in DOMAIN f |-> f[i].cur]

\* the pre-fix revision of a file: the actors that have one
Originals(f) ==
    LET has(a) == a.orig # None
        with == SelectSeq(f, has)
    IN  [i \in DOMAIN with |-> with[i].orig]

\* orig_by_name.get(name): the last original of that name, None without one
OrigByName(original_data, name) ==
    LET hits == {i \in DOMAIN original_data : Get(original_data[i], "name", None) = name}
    IN  IF hits = {} THEN None
        ELSE original_data[CHOOSE i \in hits : \A j \in hits : j <= i]

P_open == "open"
P_loop == "loop"
P_crashed == "crashed"

InitRun ==
    /\ \E f1 \in RunFiles, a2 \in RunActors, lost \in {0, 1, 2} :
          /\ files = <<Current(f1), Current(<<a2>>)>>
          /\ original = << IF lost = 1 THEN None ELSE List(Originals(f1)),
                           IF lost = 2 THEN None ELSE List(Originals(<<a2>>)) >>
    /\ pos = [file |-> 1, actor |-> 1, phase |-> P_open]
    /\ doc = <<>>
    /\ id_counter = 0
    /\ created = <<>>
    /\ kind = S_actor
    /\ hist = <<>>
    /\ trace = files
    /\ text = <<>>
    /\ out = <<>>

FileCount == Len(files)

\* process_file up to the loop: the file is read and the pre-fix revision loaded
OpenFile ==
    /\ pos.phase = P_open
    /\ pos.file <= FileCount
    /\ original[pos.file] # None
    /\ doc' = files[pos.file]
    /\ pos' = [pos EXCEPT !.actor = 1, !.phase = P_loop]
    /\ UNCHANGED <<kind, original, hist, trace, id_counter, created, files, text, out>>

\* process_file when load_original_data returns None: return, nothing written
SkipFile ==
    /\ pos.phase = P_open
    /\ pos.file <= FileCount
    /\ original[pos.file] = None
    /\ pos' = [pos EXCEPT !.file = pos.file + 1]
    /\ UNCHANGED <<kind, doc, original, hist, trace, id_counter, created, files, text, out>>

\* the actor the loop of process_file is at, and its original
LoopActor == doc[pos.actor]
LoopOrig == OrigByName(Val(original[pos.file]), Get(LoopActor, "name", EmptyStr))
InLoop == pos.phase = P_loop /\ pos.actor <= Len(doc)

\* the turn with sys.pop("notes") for sys.get("notes", "") in build_notes:
\* the fault that takes the notes out of the original it has used
ProcessActorPopsNotes ==
    /\ InLoop
    /\ Truthy(LoopOrig)
    /\ CanProcess(LoopActor, LoopOrig)
    /\ \E r \in {process_actor(LoopActor, LoopOrig, id_counter)} :
          /\ doc' = [doc EXCEPT ![pos.actor] = r.actor]
          /\ id_counter' = r.ctr
          /\ created' = created \o r.new_items
    /\ original' = [original EXCEPT ![pos.file] =
                       List([i \in DOMAIN Val(@) |->
                                IF Val(@)[i] = LoopOrig
                                THEN Put(LoopOrig, "system", Del(At(LoopOrig, "system"), "notes"))
                                ELSE Val(@)[i]])]
    /\ pos' = [pos EXCEPT !.actor = pos.actor + 1]
    /\ UNCHANGED <<kind, hist, trace, files, text, out>>

\* one turn of the loop with an original: process_actor
ProcessActor ==
    /\ InLoop
    /\ Truthy(LoopOrig)
    /\ CanProcess(LoopActor, LoopOrig)
    /\ \E r \in {process_actor(LoopActor, LoopOrig, id_counter)} :
          /\ doc' = [doc EXCEPT ![pos.actor] = r.actor]
          /\ id_counter' = r.ctr
          /\ created' = created \o r.new_items
    /\ pos' = [pos EXCEPT !.actor = pos.actor + 1]
    /\ UNCHANGED <<kind, original, hist, trace, files, text, out>>

\* the turn with `break` for the skip: the fault that ends the loop at the
\* first actor without an original
SkipActorBreak ==
    /\ InLoop
    /\ ~Truthy(LoopOrig)
    /\ pos' = [pos EXCEPT !.actor = Len(doc) + 1]
    /\ UNCHANGED <<kind, doc, original, hist, trace, id_counter, created, files, text, out>>

\* one turn of the loop without an original: "no original data found, skipping"
SkipActor ==
    /\ InLoop
    /\ ~Truthy(LoopOrig)
    /\ pos' = [pos EXCEPT !.actor = pos.actor + 1]
    /\ UNCHANGED <<kind, doc, original, hist, trace, id_counter, created, files, text, out>>

\* the crash with the dump in a `finally`: the fault that writes the
\* collection as far as the loop got
CrashWrites ==
    /\ InLoop
    /\ Truthy(LoopOrig)
    /\ ~CanProcess(LoopActor, LoopOrig)
    /\ files' = [files EXCEPT ![pos.file] = doc]
    /\ pos' = [pos EXCEPT !.phase = P_crashed]
    /\ UNCHANGED <<kind, doc, original, hist, trace, id_counter, created, text, out>>

\* process_actor raises KeyError: the process ends, the file is not written
Crash ==
    /\ InLoop
    /\ Truthy(LoopOrig)
    /\ ~CanProcess(LoopActor, LoopOrig)
    /\ pos' = [pos EXCEPT !.phase = P_crashed]
    /\ UNCHANGED <<kind, doc, original, hist, trace, id_counter, created, files, text, out>>

\* the end of process_file: json.dump of current_data
WriteFile ==
    /\ pos.phase = P_loop
    /\ pos.actor > Len(doc)
    /\ files' = [files EXCEPT ![pos.file] = doc]
    /\ pos' = [pos EXCEPT !.file = pos.file + 1, !.phase = P_open]
    /\ UNCHANGED <<kind, doc, original, hist, trace, id_counter, created, text, out>>

NextRun == OpenFile \/ SkipFile \/ ProcessActor \/ SkipActor \/ Crash \/ WriteFile

SpecRun == InitRun /\ [][NextRun]_vars

----------------------------------------------------------------------------
(* SpecText: the text functions of add-actor-items.py applied to a text *)

TextChars == {"a", ",", "(", ")", " "}

\* the example of the tokenizer's contract
ExampleEntries == <<"F","o","r","b","i","d","d","e","n"," ","L","o","r","e"," ","(","W","a","r","p",","," ","D","a","e","m","o","n","o","l","o","g","y",")",","," ","S","c","h","o","l","a","s","t","i","c"," ","L","o","r","e"," ","(","O","c","c","u","l","t",")"," ","+","1","0">>

Texts == UNION {[1..n -> TextChars] : n \in 0..MaxLen} \cup {ExampleEntries}

OpSplit == "split"

InitText ==
    /\ text \in Texts
    /\ out = <<>>
    /\ hist = <<>>
    /\ kind = S_actor
    /\ doc = <<>>
    /\ original = <<>>
    /\ trace = <<>>
    /\ id_counter = 0
    /\ created = <<>>
    /\ files = <<>>
    /\ pos = <<>>

\* split_respecting_parens applied to the text
Split ==
    /\ hist = <<>>
    /\ out' = split_respecting_parens(text)
    /\ hist' = <<OpSplit>>
    /\ UNCHANGED <<kind, doc, original, trace, id_counter, created, files, pos, text>>

NextText == Split

SpecText == InitText /\ [][NextText]_vars

----------------------------------------------------------------------------
(* SpecFixRun: one run of fix-actor-data.py, main() over the two actor     *)
(* files.  A file is the JSON value it holds, or text that is no JSON.     *)

\* a file that holds a JSON object, and a file that json.load cannot read
NotArray == EmptyDict
Malformed == <<"text", <<>>>>

\* what an actor file of the run can hold: an array of one or two entries,
\* an entry being an actor or a stray string
FixRunEntries == {ActorList[1], ActorList[6], Str(<<"x">>)}
FixRunFiles ==
    {List(l) : l \in UNION {[1..n -> FixRunEntries] : n \in 1..MaxActorsPerFile}}
    \cup {NotArray, Malformed}

P_fix_open == "fix_open"
P_fix_loop == "fix_loop"
P_fix_crashed == "fix_crashed"

InitFixRun ==
    /\ files \in [1..2 -> FixRunFiles]
    /\ trace = files
    /\ pos = [file |-> 1, actor |-> 1, phase |-> P_fix_open]
    /\ doc = <<>>
    /\ original = <<>>
    /\ id_counter = 0
    /\ created = <<>>
    /\ kind = S_actor
    /\ hist = <<>>
    /\ text = <<>>
    /\ out = <<>>

\* process_file up to the loop: the file is read and holds an array
FixRunOpen ==
    /\ pos.phase = P_fix_open
    /\ pos.file <= FileCount
    /\ IsList(files[pos.file])
    /\ doc' = Val(files[pos.file])
    /\ pos' = [pos EXCEPT !.actor = 1, !.phase = P_fix_loop]
    /\ UNCHANGED <<kind, original, hist, trace, id_counter, created, files, text, out>>

\* process_file on a file that is not an array: "Skipping", nothing written
FixRunSkip ==
    /\ pos.phase = P_fix_open
    /\ pos.file <= FileCount
    /\ files[pos.file] = NotArray
    /\ pos' = [pos EXCEPT !.file = pos.file + 1]
    /\ UNCHANGED <<kind, doc, original, hist, trace, id_counter, created, files, text, out>>

\* one turn of the loop: fix_actor(actor)
FixRunActor ==
    /\ pos.phase = P_fix_loop
    /\ pos.actor <= Len(doc)
    /\ IsDict(doc[pos.actor])
    /\ doc' = [doc EXCEPT ![pos.actor] = fix_actor(doc[pos.actor])]
    /\ pos' = [pos EXCEPT !.actor = pos.actor + 1]
    /\ UNCHANGED <<kind, original, hist, trace, id_counter, created, files, text, out>>

\* json.load raises on text that is no JSON, fix_actor raises AttributeError
\* on an entry that is no object: the process ends, the file is not written
FixRunCrash ==
    /\ \/ /\ pos.phase = P_fix_open
          /\ pos.file <= FileCount
          /\ files[pos.file] = Malformed
       \/ /\ pos.phase = P_fix_loop
          /\ pos.actor <= Len(doc)
          /\ ~IsDict(doc[pos.actor])
    /\ pos' = [pos EXCEPT !.phase = P_fix_crashed]
    /\ UNCHANGED <<kind, doc, original, hist, trace, id_counter, created, files, text, out>>

\* the end of process_file: json.dump of data
FixRunWrite ==
    /\ pos.phase = P_fix_loop
    /\ pos.actor > Len(doc)
    /\ files' = [files EXCEPT ![pos.file] = List(doc)]
    /\ pos' = [pos EXCEPT !.file = pos.file + 1, !.phase = P_fix_open]
    /\ UNCHANGED <<kind, doc, original, hist, trace, id_counter, created, text, out>>

NextFixRun == FixRunOpen \/ FixRunSkip \/ FixRunActor \/ FixRunCrash \/ FixRunWrite

\* SpecRuns: a run of either script
InitRuns == InitRun \/ InitFixRun
NextRuns == NextRun \/ NextFixRun
SpecRuns == InitRuns /\ [][NextRuns]_vars

----------------------------------------------------------------------------
(* SpecEntry: the record builders of add-actor-items.py, the rule table of *)
(* refactor-data.py and extract_section, each applied to one text          *)

\* the characters the patterns of the builders tell apart
EntryChars == {"x", "1", "+", "(", ")", ",", " ", "."}

\* the longest entry of which every text is tried
MaxEntryLen == 4

\* entries as the notes hold them: a name, a parenthetical part, a suffix
EntryBases ==
    { <<"C","o","m","m","a","n","d">>,
      <<"F","o","r","b","i","d","d","e","n"," ","L","o","r","e">>,
      <<"F","e","a","r">>,
      <<"U","n","n","a","t","u","r","a","l"," ","S","t","r","e","n","g","t","h">>,
      <<"S","i","z","e">>,
      <<"O","l","d"," ","H","a","b","i","t">>,
      <<"B","i","t","e","!">> }
EntryGroups ==
    { <<>>,
      <<" ","(","4",")">>,
      <<" ","(","x","2",")">>,
      <<" ","(","H","u","l","k","i","n","g",")">>,
      <<" ","(","W","a","r","p",","," ","D","a","e","m","o","n","o","l","o","g","y",")">>,
      <<"(","O","c","c","u","l","t",")">>,
      <<" ","(","a"," ","1","2"," ","b","3",")">>,
      <<" ","(">>,
      <<" ","(","4">>,
      <<")">>,
      <<" ","(","(","4",")">>,
      <<" ","(","(","a",","," ","b",")">>,
      <<" ","(","4",")"," ","(","a",")">>,
      <<" ","(","a",")"," ","(","4",")">>,
      <<" ","(","a",","," ","b",")"," ","(","c",")">> }
EntrySuffixes ==
    { <<>>,
      <<" ","+","2","0">>,
      <<"+","5">>,
      <<" ","+","1","0",".">>,
      <<".">> }

\* the characters the pattern of extract_section tells apart
NoteChars == {"a", ",", " ", "\n", ".", "T", ":"}

\* the longest text after "SKILLS:" of which every text is tried
MaxNoteLen == 4

NoteExamples ==
    { <<"S","K","I","L","L","S",":"," ","A","w","a","r","e","n","e","s","s"," ","+","1","0",","," ","D","o","d","g","e","\n","T","A","L","E","N","T","S",":"," ","S","w","i","f","t"," ","A","t","t","a","c","k">>,
      <<"S","K","I","L","L","S",":","\n","T","A","L","E","N","T","S",":"," ","S","w","i","f","t"," ","A","t","t","a","c","k">>,
      <<"I","n","t","r","o",".","\n","S","K","I","L","L","S",":"," ","F","o","r","b","i","d","d","e","n"," ","L","o","r","e"," ","(","W","a","r","p",","," ","D","a","e","m","o","n","o","l","o","g","y",")"," ","+","2","0",".","\n","D","o","d","g","e">> }

Entries ==
    UNION {[1..n -> EntryChars] : n \in 0..MaxEntryLen}
    \cup {b \o g \o s : b \in EntryBases, g \in EntryGroups, s \in EntrySuffixes}

NoteTexts ==
    {L_Skills \o <<":">> \o b : b \in UNION {[1..n -> NoteChars] : n \in 0..MaxNoteLen}}
    \cup NoteExamples

OpSkill == "make_skill"
OpTalent == "make_talent"
OpTrait == "make_trait"
OpRules == "get_trait_rules_and_immunities"
OpSection == "extract_section"

InitEntry ==
    /\ text \in Entries \cup NoteTexts
    /\ out = <<>>
    /\ hist = <<>>
    /\ kind = S_actor
    /\ doc = <<>>
    /\ original = <<>>
    /\ trace = <<>>
    /\ id_counter = 0
    /\ created = <<>>
    /\ files = <<>>
    /\ pos = <<>>

\* make_skill(text): out is the list it returns
MakeSkill ==
    /\ hist = <<>>
    /\ \E r \in {make_skill(text, id_counter)} :
          /\ out' = r.items
          /\ id_counter' = r.ctr
    /\ hist' = <<OpSkill>>
    /\ UNCHANGED <<kind, doc, original, trace, created, files, pos, text>>

\* make_talent(text): out is the list of the one record it returns
MakeTalent ==
    /\ hist = <<>>
    /\ \E r \in {make_talent(text, id_counter)} :
          /\ out' = <<r.item>>
          /\ id_counter' = r.ctr
    /\ hist' = <<OpTalent>>
    /\ UNCHANGED <<kind, doc, original, trace, created, files, pos, text>>

\* make_trait(text): out is the list of the one record it returns
MakeTrait ==
    /\ hist = <<>>
    /\ \E r \in {make_trait(text, <<>>, id_counter)} :
          /\ out' = <<r.item>>
          /\ id_counter' = r.ctr
    /\ hist' = <<OpTrait>>
    /\ UNCHANGED <<kind, doc, original, trace, created, files, pos, text>>

\* get_trait_rules_and_immunities(text, 0): out is the pair it returns
TraitRules ==
    /\ hist = <<>>
    /\ out' = get_trait_rules_and_immunities(text, 0)
    /\ hist' = <<OpRules>>
    /\ UNCHANGED <<kind, doc, original, trace, id_counter, created, files, pos, text>>

\* extract_section(text, "SKILLS"): out is the list of entries it returns
ExtractSection ==
    /\ hist = <<>>
    /\ out' = extract_section(text, L_Skills)
    /\ hist' = <<OpSection>>
    /\ UNCHANGED <<kind, doc, original, trace, id_counter, created, files, pos, text>>

NextEntry == MakeSkill \/ MakeTalent \/ MakeTrait \/ TraitRules \/ ExtractSection

SpecEntry == InitEntry /\ [][NextEntry]_vars

----------------------------------------------------------------------------
(* SpecBullet: the bulleted sections of the notes, extract_special_abilities, *)
(* extract_psychic_powers and the power loop of process_actor, each applied   *)
(* to one text                                                                *)

\* the most bullets a section of the texts holds
MaxBullets == 2
\* the most pieces a psychic-power description of the texts is made of
MaxPieces == 3

BulletLabels ==
    { <<"S","P","E","C","I","A","L"," ","A","B","I","L","I","T","I","E","S">>,
      <<"S","P","E","C","I","A","L"," ","R","U","L","E","S">>,
      <<"P","S","Y","C","H","I","C"," ","P","O","W","E","R","S">> }
BulletLeads ==
    { <<"\n">>,
      <<" ">>,
      <<>> }
\* what follows the bullets of a section
BulletTails ==
    { <<>>,
      <<"\n","T","A","C","T","I","C","S",":"," ","c","h","a","r","g","e">>,
      <<"\n","G","M"," ","a","d","v","i","c","e">>,
      <<"\n","S","K","I","L","L","S",":"," ","D","o","d","g","e">>,
      <<"\n","T","R","A","I","T","S",":"," ","F","e","a","r"," ","(","2",")">>,
      <<".","\n","H","e"," ","w","a","i","t","s">>,
      <<"\n","\n","H","e"," ","w","a","i","t","s">>,
      <<"\n","S","P","E","C","I","A","L"," ","R","U","L","E","S",":","\n","BULLET"," ","A","u","r","a"," ","EMDASH"," ","c","o","l","d">>,
      <<"\n">> }
\* bullets of a section whose bounds are tried
PlainBullets ==
    { <<"R","e","g","e","n","e","r","a","t","i","o","n"," ","EMDASH"," ","r","e","g","r","o","w","s">>,
      <<"F","e","a","r"," ","(","2",")"," ","ENDASH"," ","d","r","e","a","d">>,
      <<"F","e","a","r"," ","(","3",")"," ","EMDASH"," ","a","w","e">>,
      <<"W","a","r","p"," ","F","i","r","e"," ","EMDASH"," ","2","0","m"," ","c","o","n","e">> }
\* the parts of a bullet whose split is tried: name, dash, description
BulletNames ==
    { <<"F","e","a","r"," ","(","2",")">>,
      <<"O","l","d"," ","H","a","b","i","t"," ">>,
      <<>>,
      <<"EMDASH","a">>,
      <<"a","-","b">> }
BulletDashes ==
    { <<" ","EMDASH"," ">>,
      <<"ENDASH">>,
      <<"EMDASH"," ">>,
      <<" ","-"," ">>,
      <<>> }
BulletDescs ==
    { <<"r","e","g","r","o","w","s">>,
      <<"a"," ","ENDASH"," ","b">>,
      <<>>,
      <<"x","\n","y">>,
      <<"EMDASH">> }
\* the pieces of the description of a psychic power
DescPieces ==
    { <<"F","u","l","l"," ","A","c","t","i","o","n">>,
      <<"f","u","l","l"," ","a","c","t","i","o","n">>,
      <<"S","u","s","t","a","i","n","e","d">>,
      <<"T","o","u","c","h">>,
      <<"2","0","m">>,
      <<"3","m"," "," ","r","a","d","i","u","s">>,
      <<" ">>,
      <<"x">>,
      <<"1">>,
      <<"c","o","n","e">> }

\* the concatenations of up to n members of S
RECURSIVE Concats(_, _)
Concats(S, n) ==
    IF n = 0 THEN {<<>>} ELSE {<<>>} \cup {a \o b : a \in S, b \in Concats(S, n - 1)}

\* the lists of 1..n bullets of S, every bullet after its marker, one a line
RECURSIVE BulletLists(_, _)
BulletLists(S, n) ==
    LET one == {<<Bullet, " ">> \o b : b \in S}
    IN  IF n = 1 THEN one
        ELSE one \cup {a \o <<"\n">> \o b : a \in one, b \in BulletLists(S, n - 1)}

SectionTexts ==
    {l \o <<":">> \o w \o b \o t :
        l \in BulletLabels, w \in BulletLeads, b \in BulletLists(PlainBullets, MaxBullets),
        t \in BulletTails}
SplitTexts ==
    {L_SpecialAbilities \o <<":", "\n">> \o b \o t :
        b \in BulletLists({n \o d \o e : n \in BulletNames, d \in BulletDashes,
                                         e \in BulletDescs}, 1),
        t \in {<<>>} \cup {<<"\n">> \o p : p \in BulletLists(PlainBullets, MaxBullets - 1)}}
PowerTexts ==
    {L_PsychicPowers \o <<":", "\n", Bullet, " ">> \o <<"W","a","r","p"," ","F","i","r","e">> \o <<" ", EmDash, " ">> \o d :
        d \in Concats(DescPieces, MaxPieces)}
\* a TRAITS section before the special abilities
TraitSections ==
    { <<"T","R","A","I","T","S",":"," ","F","e","a","r"," ","(","4",")">>,
      <<"T","R","A","I","T","S",":"," ","R","e","g","e","n","e","r","a","t","i","o","n",","," ","S","i","z","e"," ","(","H","u","l","k","i","n","g",")">>,
      <<"T","R","A","I","T","S",":"," ","W","a","r","p"," ","F","i","r","e"," ","(","x","2",")">> }
TraitTexts ==
    {t \o <<"\n">> \o L_SpecialAbilities \o <<":", "\n">> \o b :
        t \in TraitSections, b \in BulletLists(PlainBullets, MaxBullets)}
BulletTexts == SectionTexts \cup SplitTexts \cup PowerTexts \cup TraitTexts

OpAbilities == "extract_special_abilities"
OpPowers == "extract_psychic_powers"
OpInfer == "power loop"
OpTraits == "trait loops"

InitBullet ==
    /\ text \in BulletTexts
    /\ out = <<>>
    /\ hist = <<>>
    /\ kind = S_actor
    /\ doc = <<>>
    /\ original = <<>>
    /\ trace = <<>>
    /\ id_counter = 0
    /\ created = <<>>
    /\ files = <<>>
    /\ pos = <<>>

\* extract_special_abilities(text): out is the list of its name -> description pairs
ExtractAbilities ==
    /\ hist = <<>>
    /\ out' = extract_special_abilities(text)
    /\ hist' = <<OpAbilities>>
    /\ UNCHANGED <<kind, doc, original, trace, id_counter, created, files, pos, text>>

\* extract_psychic_powers(text): out is the list of its name -> description pairs
ExtractPowers ==
    /\ hist = <<>>
    /\ out' = extract_psychic_powers(text)
    /\ hist' = <<OpPowers>>
    /\ UNCHANGED <<kind, doc, original, trace, id_counter, created, files, pos, text>>

\* the loop of process_actor over extract_psychic_powers(text): out is the
\* list of the power records it appends to new_items
InferPowers ==
    /\ hist = <<>>
    /\ \E r \in {PowerLoop(extract_psychic_powers(text), [items |-> <<>>, ctr |-> id_counter])} :
          /\ out' = r.items
          /\ id_counter' = r.ctr
    /\ hist' = <<OpInfer>>
    /\ UNCHANGED <<kind, doc, original, trace, created, files, pos, text>>

\* the loops of process_actor over extract_section(text, "TRAITS") and then
\* over extract_special_abilities(text): out is the list of the trait
\* records they append to new_items
DeriveTraits ==
    /\ hist = <<>>
    /\ \E r \in {AbilityLoop(extract_special_abilities(text),
                              TraitLoop(extract_section(text, L_Traits),
                                        [items |-> <<>>, ctr |-> id_counter]))} :
          /\ out' = r.items
          /\ id_counter' = r.ctr
    /\ hist' = <<OpTraits>>
    /\ UNCHANGED <<kind, doc, original, trace, created, files, pos, text>>

NextBullet == ExtractAbilities \/ ExtractPowers \/ InferPowers \/ DeriveTraits

SpecBullet == InitBullet /\ [][NextBullet]_vars

----------------------------------------------------------------------------
(* Properties of the migration scripts.  The last transform applied is     *)
(* hist[Len(hist)], the record it was applied to is trace[Len(hist)] and   *)
(* the record it left is doc.                                              *)

Ran(op) == hist # <<>> /\ hist[Len(hist)] = op
RanTwice(op) == Len(hist) >= 2 /\ hist[Len(hist)] = op /\ hist[Len(hist) - 1] = op
Pre == trace[Len(hist)]
SysOf(d) == Get(d, "system", EmptyDict)
ItemsOf(d) == Val(Get(d, "items", EmptyList))
FullMigration == <<OpFix, OpAdd, OpRefactor>>

\* C1: the full migration sequence (fix_actor, process_actor against the
\* original with a fresh counter, refactor_actor) applied to its own output
\* gives the output of the first application again.  The statement is
\* refuted: a second pass loses details.role and zeroes the actor's armour.
C1_MigrationIdempotent ==
    (kind = S_actor /\ hist = FullMigration \o FullMigration) => doc = trace[4]

\* C2: fix_actor(fix_actor(d)) = fix_actor(d) for every actor document d.
\* The statement is refuted: the second run pops nothing, so details.role
\* becomes "" and details.notes shrinks to the description, and the armour
\* the first run wrote is replaced by zeros.
C2_FixActorIdempotent ==
    (kind = S_actor /\ RanTwice(OpFix)) => doc = Pre

\* C3: every transform of refactor-data.py is safe to re-run: a second
\* application (and so any further one) of refactor_actor, with the embedded
\* refactor_weapon, refactor_armour, refactor_gear, refactor_ammunition and
\* refactor_trait, and of the standalone refactor_weapon, refactor_armour,
\* refactor_gear, refactor_ammunition, refactor_standalone_trait and
\* refactor_objective, leaves the record exactly as the first left it.
C3_RefactorIdempotent == RanTwice(OpRefactor) => doc = Pre

\* the case of C3: an actor with an embedded trait that the first refactor
\* changed and the second did not
C3_Witness ==
    /\ kind = S_actor
    /\ RanTwice(OpRefactor)
    /\ trace[Len(hist) - 1] # Pre
    /\ \E i \in DOMAIN ItemsOf(doc) :
          /\ Get(ItemsOf(doc)[i], "type", None) = Str(S_trait)
          /\ ItemsOf(trace[Len(hist) - 1])[i] # ItemsOf(doc)[i]
    /\ doc = Pre

\* the items of an actor of the four kinds process_actor derives
DerivedItemsOf(d) ==
    LET derived(i) == Get(i, "type", None) \in
                         {Str(S_skill), Str(S_talent), Str(S_trait), Str(S_power)}
    IN  SelectSeq(ItemsOf(d), derived)

\* C4: after process_actor on an actor whose original has non-empty notes,
\* the actor's skill, talent, trait and power items are exactly the records
\* derived in that run, whatever the items before and whatever was
\* extracted.  The statement is refuted: when nothing is extracted the old
\* records of these kinds stay.
C4_RegenerateReplaces ==
    (kind = S_actor /\ Ran(OpAdd) /\ Truthy(Get(SysOf(original), "notes", EmptyStr)))
        => DerivedItemsOf(doc) = created

\* what a rename of old to new allows between the dict before and after:
\* old without new: the value is under new and old is gone; new present: its
\* value stays, and old is as it was; old absent: nothing is moved, so new is
\* as it was or holds the default the function fills in next
RenameMoved(pre, post, old, new, dflt) ==
    /\ (Has(pre, old) /\ ~Has(pre, new))
          => (Has(post, new) /\ At(post, new) = At(pre, old) /\ ~Has(post, old))
    /\ Has(pre, new)
          => /\ Has(post, new) /\ At(post, new) = At(pre, new)
             /\ Has(post, old) = Has(pre, old)
             /\ Has(pre, old) => At(post, old) = At(pre, old)
    /\ ~Has(pre, old)
          => /\ ~Has(post, old)
             /\ ~Has(pre, new) => (Has(post, new) /\ At(post, new) = dflt)

\* the embedded weapons of an actor that have a system dict
EmbeddedWeapons(d) ==
    {i \in DOMAIN ItemsOf(d) :
        /\ IsDict(ItemsOf(d)[i])
        /\ Get(ItemsOf(d)[i], "type", None) = Str(S_weapon)
        /\ Has(ItemsOf(d)[i], "system")}

MagazineDefault == Dict(<< <<"value", Num(0)>>, <<"max", Num(0)>> >>)

\* C5: the renames of refactor_weapon (clip to magazine, standalone and
\* embedded weapons) and refactor_objective (issuer to assignedBy) move the
\* value only when the old key exists and the new key does not: then the
\* new key holds the old key's value and the old key is gone; a new key that
\* exists is never overwritten; without the old key nothing is moved.
C5_RenameMoves ==
    Ran(OpRefactor) =>
        /\ (kind = S_weapon /\ Has(Pre, "system"))
              => RenameMoved(SysOf(Pre), SysOf(doc), "clip", "magazine", MagazineDefault)
        /\ (kind = S_objective /\ Has(Pre, "system"))
              => RenameMoved(SysOf(Pre), SysOf(doc), "issuer", "assignedBy", EmptyStr)
        /\ kind = S_actor
              => \A i \in EmbeddedWeapons(Pre) :
                    RenameMoved(SysOf(ItemsOf(Pre)[i]), SysOf(ItemsOf(doc)[i]),
                                "clip", "magazine", MagazineDefault)

\* the case of C5: a weapon with a clip and no magazine was refactored, and
\* the magazine now holds what the clip held
C5_Witness ==
    /\ kind = S_weapon
    /\ Ran(OpRefactor)
    /\ Has(SysOf(Pre), "clip") /\ ~Has(SysOf(Pre), "magazine")
    /\ IsDict(At(SysOf(Pre), "clip"))
    /\ Has(SysOf(doc), "magazine") /\ ~Has(SysOf(doc), "clip")

HoldsBoth(sys, old, new) == Has(sys, old) /\ Has(sys, new)

\* C6 as stated: after refactor_weapon no weapon record holds both 'clip' and
\* 'magazine', and after refactor_objective no objective record holds both
\* 'issuer' and 'assignedBy', for EVERY input record.  Refuted by the records
\* that hold both keys when they come in: the rename leaves them alone.
C6_NeverBothKeys ==
    Ran(OpRefactor) =>
        /\ (kind = S_weapon /\ Has(Pre, "system"))
              => ~HoldsBoth(SysOf(doc), "clip", "magazine")
        /\ (kind = S_objective /\ Has(Pre, "system"))
              => ~HoldsBoth(SysOf(doc), "issuer", "assignedBy")

\* C6, amended: a rename never CREATES the pair.  A weapon (standalone or
\* embedded) that does not hold both 'clip' and 'magazine' does not hold both
\* after refactor_weapon, an objective that does not hold both 'issuer' and
\* 'assignedBy' does not hold both after refactor_objective; a record that
\* holds both when it comes in holds both afterwards.
C6_RenameCreatesNoPair ==
    Ran(OpRefactor) =>
        /\ (kind = S_weapon /\ Has(Pre, "system"))
              => (HoldsBoth(SysOf(doc), "clip", "magazine")
                    = HoldsBoth(SysOf(Pre), "clip", "magazine"))
        /\ (kind = S_objective /\ Has(Pre, "system"))
              => (HoldsBoth(SysOf(doc), "issuer", "assignedBy")
                    = HoldsBoth(SysOf(Pre), "issuer", "assignedBy"))
        /\ kind = S_actor
              => \A i \in EmbeddedWeapons(Pre) :
                    HoldsBoth(SysOf(ItemsOf(doc)[i]), "clip", "magazine")
                       = HoldsBoth(SysOf(ItemsOf(Pre)[i]), "clip", "magazine")

\* the case of C6: an objective with an issuer and no assignedBy was
\* refactored, and holds assignedBy alone
C6_Witness ==
    /\ kind = S_objective
    /\ Ran(OpRefactor)
    /\ Has(SysOf(Pre), "issuer") /\ ~Has(SysOf(Pre), "assignedBy")
    /\ Has(SysOf(doc), "assignedBy") /\ ~Has(SysOf(doc), "issuer")

\* the keys the functions default-fill
ActorTemplateFields ==
    {"fate", "fatigue", "corruption", "insanity", "influence", "xp", "aptitudes", "defeated"}
WeaponDefaults ==
    {"magazine", "craftsmanship", "weaponGroup", "loadedAmmoId", "loadedMagazineName",
     "loadedRounds", "reloadProgress", "rules", "loadType"}
AmmunitionDefaults == {"craftsmanship", "capacity", "loadedRounds", "forWeapon"}
StandaloneTraitDefaults == {"hasRating", "rating", "category", "immunities"}
ObjectiveDefaults == {"assignedBy", "timestamp", "completedTimestamp", "scope"}

\* the default-filled keys of a record of an item type
DefaultsOf(item_type) ==
    IF item_type = S_weapon THEN WeaponDefaults
    ELSE IF item_type \in {S_armour, S_gear} THEN {"craftsmanship"}
    ELSE IF item_type = S_ammunition THEN AmmunitionDefaults
    ELSE {}

\* every key of keys that pre holds has the same value in post
Kept(pre, post, keys) ==
    \A k \in keys : Has(pre, k) => (Has(post, k) /\ At(post, k) = At(pre, k))

\* C7: default-fill sets a key only if it is absent.  Every template field
\* fix_actor fills and every field the refactor functions fill (refactor_actor:
\* eliteAdvances; weapons, armour, gear and ammunition, standalone and
\* embedded; standalone traits; objectives) keeps the value it has whenever
\* the key is present, whatever the value.  The derived fields of a trait
\* (rules, and immunities of an embedded trait) are regenerated from the
\* trait table and are not default-fill fields.
C7_DefaultFillKeeps ==
    /\ (kind = S_actor /\ Ran(OpFix))
          => Kept(SysOf(Pre), SysOf(doc), ActorTemplateFields)
    /\ (kind = S_actor /\ Ran(OpRefactor))
          => /\ Kept(SysOf(Pre), SysOf(doc), {"eliteAdvances"})
             /\ \A i \in DOMAIN ItemsOf(Pre) :
                   IsDict(ItemsOf(Pre)[i])
                      => Kept(SysOf(ItemsOf(Pre)[i]), SysOf(ItemsOf(doc)[i]),
                              DefaultsOf(Val(Get(ItemsOf(Pre)[i], "type", EmptyStr))))
    /\ (kind # S_actor /\ Ran(OpRefactor))
          => Kept(SysOf(Pre), SysOf(doc),
                  IF kind = S_trait THEN StandaloneTraitDefaults
                  ELSE IF kind = S_objective THEN ObjectiveDefaults
                  ELSE DefaultsOf(kind))

\* the case of C7: a weapon whose craftsmanship is "" and whose loadedRounds
\* is [] was refactored; both are as they were and a missing field was filled
C7_Witness ==
    /\ kind = S_weapon
    /\ Ran(OpRefactor)
    /\ Has(SysOf(Pre), "craftsmanship") /\ At(SysOf(Pre), "craftsmanship") = EmptyStr
    /\ Has(SysOf(Pre), "loadedRounds") /\ At(SysOf(Pre), "loadedRounds") = EmptyList
    /\ At(SysOf(doc), "craftsmanship") = EmptyStr
    /\ At(SysOf(doc), "loadedRounds") = EmptyList
    /\ ~Has(SysOf(Pre), "loadedAmmoId") /\ Has(SysOf(doc), "loadedAmmoId")

BodyLocations == {"head", "rightArm", "leftArm", "body", "rightLeg", "leftLeg"}

\* system.armour in the current shape: the six locations, no 'value' key
PerLocation(armour) == IsDict(armour) /\ Keys(armour) = BodyLocations

\* C8: when system.armour is already a per-location mapping, fix_actor leaves
\* the six location values unchanged, with or without an embedded armour
\* item.  The statement is refuted: the armour is rebuilt from the embedded
\* armour item or, without one, set to zeros.
C8_ArmourNoOp ==
    (kind = S_actor /\ Ran(OpFix) /\ Has(SysOf(Pre), "armour")
       /\ PerLocation(At(SysOf(Pre), "armour")))
        => \A l \in BodyLocations :
              At(At(SysOf(doc), "armour"), l) = At(At(SysOf(Pre), "armour"), l)

\* the number an identifier carries after its prefix
IdNumber(item) ==
    DigitsToInt(SubSeq(Val(At(item, "_id")), Len(IdPrefix) + 1, Len(Val(At(item, "_id")))))

\* C9: within one run of add-actor-items.py the counter only grows and the
\* records made by make_skill, make_talent, make_trait and make_power, over
\* all actors and all files of the run, carry strictly increasing numbers
\* and pairwise different identifiers.
C9_IdsUnique ==
    /\ \A i \in DOMAIN created : IdNumber(created[i]) <= id_counter
    /\ \A i, j \in DOMAIN created :
          i < j => /\ IdNumber(created[i]) < IdNumber(created[j])
                   /\ At(created[i], "_id") # At(created[j], "_id")

\* the records of the run that an actor of file f holds
MadeFor(f) ==
    {i \in DOMAIN created :
        \E a \in DOMAIN files[f] :
           \E n \in DOMAIN ItemsOf(files[f][a]) : ItemsOf(files[f][a])[n] = created[i]}

\* the case of C9: the run is over and both files were written with records
\* made in it, for more than one actor of the first file
C9_Witness ==
    /\ pos.phase = P_open /\ pos.file > FileCount
    /\ Len(files[1]) >= 2
    /\ \A a \in DOMAIN files[1] :
          \E n \in DOMAIN ItemsOf(files[1][a]) :
             \E i \in DOMAIN created : ItemsOf(files[1][a])[n] = created[i]
    /\ MadeFor(2) # {}
    /\ Len(created) > Cardinality(MadeFor(2))

\* the parentheses of s are balanced: no prefix closes more than it opens,
\* and all that is opened is closed
Opens(s, n) == Cardinality({i \in 1..n : s[i] = "("})
Closes(s, n) == Cardinality({i \in 1..n : s[i] = ")"})
Balanced(s) ==
    /\ \A n \in 1..Len(s) : Closes(s, n) <= Opens(s, n)
    /\ Closes(s, Len(s)) = Opens(s, Len(s))

\* position i of s lies inside a parenthetical group: between a "(" and the
\* ")" that closes it
InGroup(s, i) ==
    \E l \in 1..(i - 1), r \in (i + 1)..Len(s) :
       /\ s[l] = "(" /\ s[r] = ")"
       /\ Balanced(SubSeq(s, l + 1, r - 1))

\* the commas of s outside every group, and the pieces between them in order
TopCommas(s) == {i \in 1..Len(s) : s[i] = "," /\ ~InGroup(s, i)}
PieceStarts(s) == {1} \cup {c + 1 : c \in TopCommas(s)}
PieceAt(s, a) == SubSeq(s, a, Min({c \in TopCommas(s) : c >= a} \cup {Len(s) + 1}) - 1)
Pieces(s) ==
    [k \in 1..Cardinality(PieceStarts(s)) |->
        PieceAt(s, CHOOSE a \in PieceStarts(s) :
                      Cardinality({b \in PieceStarts(s) : b < a}) = k - 1)]
IsBlank(p) == \A i \in DOMAIN p : p[i] = " "
TrimmedPieces(s) ==
    LET kept(p) == ~IsBlank(p)
        trim(p) == SubSeq(p, Min({i \in DOMAIN p : p[i] # " "}),
                          CHOOSE j \in DOMAIN p : p[j] # " " /\ \A m \in (j + 1)..Len(p) : p[m] = " ")
        pieces(ps) == [k \in DOMAIN ps |-> trim(ps[k])]
    IN  pieces(SelectSeq(Pieces(s), kept))

\* C10: for a string with balanced parentheses, split_respecting_parens cuts
\* at exactly the commas outside every parenthetical group, trims each piece
\* and drops the pieces that are empty or blank; the example of the contract
\* gives exactly two entries, the first with its inner comma.
C10_SplitAtTopLevelCommas ==
    Ran(OpSplit) =>
        /\ Balanced(text) => out = TrimmedPieces(text)
        /\ text = ExampleEntries
              => out = << <<"F","o","r","b","i","d","d","e","n"," ","L","o","r","e"," ","(","W","a","r","p",","," ","D","a","e","m","o","n","o","l","o","g","y",")">>,
                          <<"S","c","h","o","l","a","s","t","i","c"," ","L","o","r","e"," ","(","O","c","c","u","l","t",")"," ","+","1","0">> >>

\* the case of C10: a balanced text with a comma inside a group and a comma
\* outside, a blank piece dropped and a piece trimmed
C10_Witness ==
    /\ Ran(OpSplit)
    /\ Balanced(text)
    /\ \E i, j \in DOMAIN text :
          /\ text[i] = "," /\ InGroup(text, i)
          /\ text[j] = "," /\ ~InGroup(text, j)
    /\ \E k \in DOMAIN text : text[k] = " "
    /\ Len(out) = 1
    /\ Len(out[1]) = 3

\* the fields of the records a builder returned
RecName(r) == Val(At(r, "name"))
RecField(r, k) == Val(At(At(r, "system"), k))

\* s ends in '+N': a '+' that one or more digits follow up to the end of s
PlusAt(s) == {i \in 1..(Len(s) - 1) : s[i] = "+" /\ \A j \in (i + 1)..Len(s) : IsDigit(s[j])}
EndsInPlusN(s) == PlusAt(s) # {}
SuffixN(s) == DigitsToInt(SubSeq(s, Min(PlusAt(s)) + 1, Len(s)))
BeforeSuffix(s) == IF EndsInPlusN(s) THEN Strip(SubSeq(s, 1, Min(PlusAt(s)) - 1)) ELSE s

\* s ends in a parenthetical group: a ")" at the end and a "(" before it
EndsInGroup(s) == s # <<>> /\ s[Len(s)] = ")" /\ \E l \in 1..(Len(s) - 1) : s[l] = "("

\* an entry as the tokenizer hands it over: one line
OneLine(s) == \A i \in DOMAIN s : s[i] # "\n"

\* the entry with the white space around it and then its final periods removed
Trimmed(s) == RStripDot(Strip(s))

\* the one record of a plain skill: not specialist, no specialization, the
\* advancement adv, the characteristic of the table for its name or "int"
PlainSkill(adv) ==
    /\ Len(out) = 1
    /\ RecField(out[1], "isSpecialist") = FALSE
    /\ RecField(out[1], "specialization") = <<>>
    /\ RecField(out[1], "advancement") = adv
    /\ RecField(out[1], "linkedCharacteristic") = MapGet(SKILL_CHARS, RecName(out[1]), S_int)

\* C11 as stated: for a skill entry whose name (the entry without a '+N' at
\* its end) has no trailing parenthetical group, make_skill returns one
\* record, not specialist, with empty specialization, advancement N \div 10
\* when the entry ends in '+N' and 0 otherwise, and the characteristic of the
\* table for the name, 'int' for an unmapped name.
C11_PlainSkillAsWritten ==
    (Ran(OpSkill) /\ OneLine(text) /\ ~EndsInGroup(BeforeSuffix(text)))
        => PlainSkill(IF EndsInPlusN(text) THEN SuffixN(text) \div 10 ELSE 0)

\* C11, amended: the same with "ends in '+N'" read on the entry after the
\* white space around it and then its final periods are removed; the name of
\* the record is that text without the suffix.  "Command +20" gives tier 2,
\* not specialist, "fel".
C11_PlainSkill ==
    /\ (Ran(OpSkill) /\ OneLine(text) /\ ~EndsInGroup(BeforeSuffix(Trimmed(text))))
          => /\ PlainSkill(IF EndsInPlusN(Trimmed(text))
                           THEN SuffixN(Trimmed(text)) \div 10 ELSE 0)
             /\ RecName(out[1]) = BeforeSuffix(Trimmed(text))
    /\ (Ran(OpSkill) /\ text = <<"C","o","m","m","a","n","d"," ","+","2","0">>)
          => /\ PlainSkill(2)
             /\ RecName(out[1]) = <<"C","o","m","m","a","n","d">>
             /\ RecField(out[1], "linkedCharacteristic") = <<"f","e","l">>

\* the case of C11: an entry of a mapped name with a '+10' and a period behind
\* it was built into one record of tier 1
C11_Witness ==
    /\ Ran(OpSkill)
    /\ text = <<"C","o","m","m","a","n","d"," ","+","1","0",".">>
    /\ Len(out) = 1
    /\ RecField(out[1], "advancement") = 1
    /\ RecName(out[1]) = <<"C","o","m","m","a","n","d">>

\* the "(" that the ")" at the end of s closes, 0 when s does not end in a
\* parenthetical group
GroupOpen(s) ==
    LET opens == {l \in 1..(Len(s) - 1) :
                     s[l] = "(" /\ Balanced(SubSeq(s, l + 1, Len(s) - 1))}
    IN  IF s = <<>> \/ s[Len(s)] # ")" \/ opens = {} THEN 0 ELSE CHOOSE l \in opens : TRUE

\* the text inside the group s ends in, and the name before that group
GroupText(s) == SubSeq(s, GroupOpen(s) + 1, Len(s) - 1)
GroupBase(s) == Strip(SubSeq(s, 1, GroupOpen(s) - 1))

\* s ends in a parenthetical qualifier: a name, then a group that is not empty
EndsInQualifier(s) == GroupOpen(s) > 1 /\ GroupBase(s) # <<>> /\ GroupText(s) # <<>>

\* the comma-separated items of a qualifier, each without the white space
\* around it
QualifierItems(q) == [k \in DOMAIN SplitChar(q, ",") |-> Strip(SplitChar(q, ",")[k])]

\* s begins with p
BeginsWith(s, p) == Len(s) >= Len(p) /\ SubSeq(s, 1, Len(p)) = p

\* C12: for a skill entry whose name (the entry without a '+N' at its end)
\* ends in a parenthetical qualifier, make_skill returns one record per
\* comma-separated item of the qualifier; every record is specialist, has
\* its own item as specialization, and all have the base name, the
\* characteristic of the table for the base name and the tier of the entry.
C12_SpecialistSkill ==
    (Ran(OpSkill) /\ OneLine(text) /\ EndsInQualifier(BeforeSuffix(Trimmed(text))))
        => LET name == BeforeSuffix(Trimmed(text))
               items == QualifierItems(GroupText(name))
               tier == IF EndsInPlusN(Trimmed(text)) THEN SuffixN(Trimmed(text)) \div 10 ELSE 0
           IN  /\ Len(out) = Len(items)
               /\ \A k \in DOMAIN out :
                     /\ RecField(out[k], "isSpecialist") = TRUE
                     /\ RecField(out[k], "specialization") = items[k]
                     /\ BeginsWith(RecName(out[k]), GroupBase(name))
                     /\ RecField(out[k], "linkedCharacteristic")
                            = MapGet(SKILL_CHARS, GroupBase(name), S_int)
                     /\ RecField(out[k], "advancement") = tier

\* the rating the precedence of the contract gives the text g of the
\* trailing parenthetical: (N), else (xN), else the first integer inside,
\* else none
GroupRating(g) ==
    IF AllDigits(g) THEN [has |-> TRUE, rating |-> DigitsToInt(g)]
    ELSE IF XDigits(g) THEN [has |-> TRUE, rating |-> DigitsToInt(Tail(g))]
    ELSE IF \E i \in DOMAIN g : IsDigit(g[i])
         THEN [has |-> TRUE, rating |-> DigitsToInt(FirstDigits(g))]
    ELSE [has |-> FALSE, rating |-> 0]

\* the rating of a trait name: that of the group it ends in, none without one
NameRating(n) ==
    IF GroupOpen(n) > 1 THEN GroupRating(GroupText(n)) ELSE [has |-> FALSE, rating |-> 0]

\* C13: make_trait takes the rating from the parenthetical the entry ends
\* in, first match wins: (N) gives N, else (xN) gives N, else the first
\* integer anywhere inside it, each with hasRating true; without a
\* parenthetical, or with one that holds no digit, rating 0 and hasRating
\* false.  "Fear (4)" gives 4/true, "Unnatural Strength (x2)" 2/true,
\* "Size (Hulking)" 0/false.
C13_TraitRatingPrecedence ==
    (Ran(OpTrait) /\ OneLine(text) /\ GroupOpen(Trimmed(text)) # 1)
        => /\ Len(out) = 1
           /\ RecField(out[1], "rating") = NameRating(Trimmed(text)).rating
           /\ RecField(out[1], "hasRating") = NameRating(Trimmed(text)).has

\* the text of a name before its first parenthesis, without the white
\* space around it
TextBeforeParen(s) ==
    Strip(SubSeq(s, 1, Min({i \in DOMAIN s : s[i] = "("} \cup {Len(s) + 1}) - 1))

\* the trait records of an actor
TraitItemsOf(d) ==
    LET isTrait(i) == Get(i, "type", None) = Str(S_trait)
    IN  SelectSeq(ItemsOf(d), isTrait)

\* the entries of the TRAITS section and the bullets of the special
\* abilities of the narrative text process_actor reads
OrigNotes == Val(Get(SysOf(original), "notes", EmptyStr))
TraitEntries == extract_section(OrigNotes, L_Traits)
AbilityBullets == extract_special_abilities(OrigNotes)

\* C14: when an entry of the TRAITS section and a bullet of the special
\* abilities have the same base name (the text before the first
\* parenthesis), process_actor leaves exactly one trait record of that base
\* name: it has the name of the TRAITS entry and an empty description, and
\* no trait record carries the description of the bullet.
C14_TraitsEntryWins ==
    (kind = S_actor /\ Ran(OpAdd) /\ OrigNotes # <<>>)
        => \A e \in DOMAIN TraitEntries, b \in DOMAIN AbilityBullets :
              TextBeforeParen(TraitEntries[e]) = TextBeforeParen(AbilityBullets[b][1])
                 => LET same == {k \in DOMAIN TraitItemsOf(doc) :
                                    TextBeforeParen(RecName(TraitItemsOf(doc)[k]))
                                        = TextBeforeParen(TraitEntries[e])}
                    IN  /\ Cardinality(same) = 1
                        /\ \A k \in same :
                              /\ RecName(TraitItemsOf(doc)[k]) = Trimmed(TraitEntries[e])
                              /\ RecField(TraitItemsOf(doc)[k], "description") = <<>>
                        /\ \A k \in DOMAIN TraitItemsOf(doc) :
                              RecField(TraitItemsOf(doc)[k], "description")
                                  # AbilityBullets[b][2]

\* the case of C14: the notes hold the TRAITS entry "Regeneration" and the
\* bullet "Regeneration" with a description; the record of the entry is
\* there, and so is the record of another bullet with its description
C14_Witness ==
    /\ kind = S_actor /\ Ran(OpAdd)
    /\ \E e \in DOMAIN TraitEntries, b \in DOMAIN AbilityBullets :
          /\ TraitEntries[e] = <<"R","e","g","e","n","e","r","a","t","i","o","n">>
          /\ AbilityBullets[b][1] = <<"R","e","g","e","n","e","r","a","t","i","o","n">>
          /\ AbilityBullets[b][2] # <<>>
    /\ \E k \in DOMAIN TraitItemsOf(doc) : RecName(TraitItemsOf(doc)[k]) = <<"R","e","g","e","n","e","r","a","t","i","o","n">>
    /\ \E k \in DOMAIN TraitItemsOf(doc) : RecField(TraitItemsOf(doc)[k], "description") # <<>>

\* the slug of the contract: lower-cased, every run of characters that are
\* not alphanumeric replaced by one "-"
RECURSIVE SlugOf(_)
SlugOf(s) ==
    LET dash(rest) == IF rest # <<>> /\ rest[1] = "-" THEN rest ELSE <<"-">> \o rest
        first(c, rest) == IF IsLower(c) \/ IsDigit(c) THEN <<c>> \o rest ELSE dash(rest)
    IN  IF s = <<>> THEN <<>> ELSE first(LowerChar(s[1]), SlugOf(Tail(s)))

\* the base name of a trait name has its own effects in the derivation table
InRuleTable(base) == base = N_Size \/ \E i \in DOMAIN TRAIT_RULES : TRAIT_RULES[i][1] = base

\* the fallback of the table: one RollOption "self:" and the slug given, no
\* immunity
GenericEffect(slug) ==
    /\ out.rules = <<RollOption(<<"s","e","l","f",":">> \o slug)>>
    /\ out.immunities = <<>>

\* C15 as stated: for a trait name whose base name is not in the derivation
\* table, get_trait_rules_and_immunities returns one generic RollOption
\* "self:" with the slug of the base name (lower-cased, every run of
\* non-alphanumeric characters replaced by one "-") and no immunity.
C15_GenericEffectAsWritten ==
    (Ran(OpRules) /\ ~InRuleTable(parse_trait_name(text).base))
        => GenericEffect(SlugOf(parse_trait_name(text).base))

\* C15, amended: the same, the slug being also without "-" at its two ends.
C15_GenericEffect ==
    (Ran(OpRules) /\ ~InRuleTable(parse_trait_name(text).base))
        => GenericEffect(StripDash(SlugOf(parse_trait_name(text).base)))

\* the case of C15: a name the table does not know, with a capital, a run
\* inside and a period at its end, got its generic effect
C15_Witness ==
    /\ Ran(OpRules)
    /\ text = <<"O","l","d"," ","H","a","b","i","t",".">>
    /\ ~InRuleTable(parse_trait_name(text).base)
    /\ out.rules = <<RollOption(<<"s","e","l","f",":","o","l","d","-","h","a","b","i","t">>)>>

\* what the derivation table gives for the name of a trait record
TableFor(t) == get_trait_rules_and_immunities(RecName(t), Get(SysOf(t), "rating", Num(0)))

\* C16: after refactor_trait on an embedded trait, whatever the record held
\* before, system.rules is the rule list the derivation table gives for the
\* name of the trait and system.immunities is the immunity list the table
\* gives for it, the empty list included.
C16_TraitFieldsRegenerated ==
    (kind = S_actor /\ Ran(OpRefactor))
        => \A k \in DOMAIN TraitItemsOf(doc) :
              /\ Get(SysOf(TraitItemsOf(doc)[k]), "rules", None)
                     = List(TableFor(TraitItemsOf(doc)[k]).rules)
              /\ Get(SysOf(TraitItemsOf(doc)[k]), "immunities", None)
                     = List(TableFor(TraitItemsOf(doc)[k]).immunities)

\* C17: for an entry with unbalanced parentheses each builder returns
\* exactly one record named as the entry (for a skill, the entry without its
\* '+N'): a skill with the fallback characteristic "int", a trait with the
\* empty category and rating 0; the entry is not dropped and not multiplied.
C17_FallbackRecord ==
    (OneLine(text) /\ Trimmed(text) # <<>> /\ ~Balanced(Trimmed(text)))
        => /\ Ran(OpSkill)
                 => /\ Len(out) = 1
                    /\ RecName(out[1]) = BeforeSuffix(Trimmed(text))
                    /\ RecField(out[1], "linkedCharacteristic") = S_int
           /\ Ran(OpTalent)
                 => /\ Len(out) = 1
                    /\ RecName(out[1]) = Trimmed(text)
           /\ Ran(OpTrait)
                 => /\ Len(out) = 1
                    /\ RecName(out[1]) = Trimmed(text)
                    /\ RecField(out[1], "category") = <<>>
                    /\ RecField(out[1], "rating") = 0
                    /\ RecField(out[1], "hasRating") = FALSE

\* the character of s at q, "" beyond its end
CharAt(s, q) == IF q \in DOMAIN s THEN s[q] ELSE ""

\* at q a line begins with another all-caps label: a line break, two or
\* more capitals, then a colon or white space
LabelLine(s, q) ==
    /\ CharAt(s, q) = "\n"
    /\ \E n \in 2..Len(s) :
          /\ \A j \in (q + 1)..(q + n) : IsUpper(CharAt(s, j))
          /\ (CharAt(s, q + n + 1) = ":" \/ IsSpace(CharAt(s, q + n + 1)))

\* at q the section ends: a period before a line break, a blank line, a
\* line with another label, or the end of the text
SectionStop(s, q) ==
    \/ CharAt(s, q) = "." /\ CharAt(s, q + 1) = "\n"
    \/ CharAt(s, q) = "\n" /\ CharAt(s, q + 1) = "\n"
    \/ LabelLine(s, q)
    \/ q = Len(s) + 1

\* the text after the first "LABEL:" of s up to the first stop
SectionSpan(s, label) ==
    LET after == Find(s, label \o <<":">>) + Len(label) + 1
    IN  SubSeq(s, after, Min({q \in after..(Len(s) + 1) : SectionStop(s, q)}) - 1)

\* C20: for a text that holds "SKILLS:", extract_section returns the entries
\* of the text after "SKILLS:" up to the first period before a line break,
\* blank line, line beginning with another all-caps label, or end of text
\* (the white space normalized, the final periods dropped); a section
\* without content gives no entry, and never the text of the section after
\* it.
C20_SectionBounds ==
    /\ (Ran(OpSection) /\ Contains(text, L_Skills \o <<":">>))
          => out = split_respecting_parens(
                       RStripDot(CollapseSpaces(Strip(SectionSpan(text, L_Skills)))))
    /\ (Ran(OpSection) /\ text = <<"S","K","I","L","L","S",":","\n","T","A","L","E","N","T","S",":"," ","S","w","i","f","t"," ","A","t","t","a","c","k">>) => out = <<>>

\* the actor i of file f, as the run found it, has a counterpart of its name
\* in the historical revision of the file
Counterparts(f, i) ==
    {j \in DOMAIN Val(original[f]) :
        Get(Val(original[f])[j], "name", None) = Get(trace[f][i], "name", EmptyStr)}
HasCounterpart(f, i) == Counterparts(f, i) # {}

\* the actor i of file f is on disk as process_actor leaves it, for some
\* value of the id counter
Processed(f, i) ==
    \E c \in 0..Len(created), j \in Counterparts(f, i) :
       /\ CanProcess(trace[f][i], Val(original[f])[j])
       /\ files[f][i] = process_actor(trace[f][i], Val(original[f])[j], c).actor

\* the run is through with file f and had its historical revision
Finished(f) == f \in DOMAIN files /\ pos.file > f /\ original[f] # None

\* C18: in a file the run is through with, an actor without a counterpart
\* of its name in the historical revision is on disk exactly as it was, and
\* every actor with a counterpart is on disk as process_actor leaves it: the
\* skip neither ends the loop nor keeps the file from being written.
C18_SkipWithoutCounterpart ==
    \A f \in DOMAIN files :
       (Finished(f) /\ \E i \in DOMAIN trace[f] : ~HasCounterpart(f, i))
          => /\ Len(files[f]) = Len(trace[f])
             /\ \A i \in DOMAIN trace[f] :
                   IF HasCounterpart(f, i) THEN Processed(f, i)
                   ELSE files[f][i] = trace[f][i]

\* the case of C18: the first file began with an actor without counterpart
\* and went on with one that has notes to recover; it was written with the
\* first as it was and the second changed
C18_Witness ==
    /\ Finished(1)
    /\ Len(trace[1]) = 2
    /\ ~HasCounterpart(1, 1)
    /\ HasCounterpart(1, 2)
    /\ files[1][1] = trace[1][1]
    /\ files[1][2] # trace[1][2]

\* the run is one of add-actor-items.py
AddRun == pos.phase \in {P_open, P_loop, P_crashed}

\* file f holds the whole collection as add-actor-items.py transforms it
WhollyAdded(f) ==
    /\ original[f] # None
    /\ Len(files[f]) = Len(trace[f])
    /\ \A i \in DOMAIN trace[f] :
          IF HasCounterpart(f, i) THEN Processed(f, i) ELSE files[f][i] = trace[f][i]

\* file f holds the whole collection as fix-actor-data.py transforms it
WhollyFixed(f) ==
    /\ IsList(trace[f])
    /\ \A i \in DOMAIN Val(trace[f]) : IsDict(Val(trace[f])[i])
    /\ files[f] = List([i \in DOMAIN Val(trace[f]) |-> fix_actor(Val(trace[f])[i])])

\* the run could not load file f or its historical revision
LoadFails(f) ==
    IF AddRun THEN original[f] = None ELSE files[f] \in {NotArray, Malformed}

\* the run ended in an exception while it was at file f
FailedAt(f) == pos.phase \in {P_crashed, P_fix_crashed} /\ pos.file = f

BulletSpan(s, labels) ==
    LET starts == {i \in DOMAIN s : \E l \in labels : StartsAt(s, i, l \o <<":">>)}
        span(i, l) ==
            SubSeq(s, i + Len(l) + 1,
                   Min({q \in (i + Len(l) + 1)..(Len(s) + 1) : SectionStop(s, q)}) - 1)
        from(i) == span(i, CHOOSE l \in labels : StartsAt(s, i, l \o <<":">>))
    IN  IF starts = {} THEN <<>> ELSE from(Min(starts))

\* the pairs of `pairs` whose description holds the label of a section
Leaks(pairs) ==
    {i \in DOMAIN pairs : \/ Contains(pairs[i][2], L_Skills \o <<":">>)
                          \/ Contains(pairs[i][2], L_Traits \o <<":">>)}

\* C21: the bullets extract_special_abilities and extract_psychic_powers
\* return are the bullets of the text after the label up to the first
\* period before a line break, blank line, line beginning with another
\* all-caps label, or end of text; no description holds the text of a
\* following section such as 'SKILLS:' or 'TRAITS:'.
C21_BulletSectionBounds ==
    /\ Ran(OpAbilities)
          => /\ out = BulletPairs(SplitBullets(Strip(
                          BulletSpan(text, {L_SpecialAbilities, L_SpecialRules}))), <<>>)
             /\ Leaks(out) = {}
    /\ Ran(OpPowers)
          => /\ out = BulletPairs(SplitBullets(Strip(
                          BulletSpan(text, {L_PsychicPowers}))), <<>>)
             /\ Leaks(out) = {}

\* the positions of desc at which a numeric distance begins: a digit whose
\* run of digits an 'm' follows
DistanceStarts(desc) ==
    {i \in DOMAIN desc : /\ IsDigit(desc[i])
                         /\ CharAt(desc, i + RunFrom(desc, i, DigitSet)) = "m"}

\* the numeric distance token that begins at i: the digits, the 'm', and
\* 'cone' or 'radius' with the white space before it when that follows
DistanceToken(desc, i) ==
    LET m == i + RunFrom(desc, i, DigitSet)
        w == m + RunFrom(desc, m + 1, Spaces)
    IN  SubSeq(desc, i,
               IF StartsAt(desc, w + 1, <<"c","o","n","e">>) THEN w + 4
               ELSE IF StartsAt(desc, w + 1, <<"r","a","d","i","u","s">>) THEN w + 6
               ELSE m)

\* the field k of the system data of record r, as the record holds it
SysField(r, k) == At(At(r, "system"), k)

\* what C22 states of the power record r built from the description desc
InferredFrom(r, desc) ==
    /\ SysField(r, "description") = Str(desc)
    /\ SysField(r, "action")
          = Str(IF Contains(desc, <<"F","u","l","l"," ","A","c","t","i","o","n">>) THEN <<"F","u","l","l"," ","A","c","t","i","o","n">> ELSE <<"H","a","l","f"," ","A","c","t","i","o","n">>)
    /\ SysField(r, "sustained")
          = (IF Contains(Lower(desc), <<"s","u","s","t","a","i","n","e","d">>) THEN Str(<<"H","a","l","f"," ","A","c","t","i","o","n">>) ELSE Bool(FALSE))
    /\ SysField(r, "range")
          = Str(IF DistanceStarts(desc) # {}
                THEN DistanceToken(desc, Min(DistanceStarts(desc)))
                ELSE IF Contains(Lower(desc), <<"t","o","u","c","h">>) THEN <<"T","o","u","c","h">>
                ELSE <<>>)

\* C22: every power record process_actor builds has action 'Full Action'
\* exactly when that phrase is in the description, else 'Half Action';
\* sustained 'Half Action' exactly when 'sustained' is in it in any case,
\* else false; range the first numeric distance token (digits, 'm', an
\* optional 'cone' or 'radius') when there is one, else 'Touch' when 'touch'
\* is in it in any case, else the empty string.
C22_PowerInference ==
    Ran(OpInfer)
       => /\ Len(out) = Len(extract_psychic_powers(text))
          /\ \A i \in DOMAIN out : InferredFrom(out[i], extract_psychic_powers(text)[i][2])

OpenBefore(s, i) ==
    \E l \in 1..(i - 1) :
       /\ s[l] = "("
       /\ ~\E r \in (l + 1)..(i - 1) : s[r] = ")" /\ Balanced(SubSeq(s, l + 1, r - 1))

\* the commas of s that no unclosed "(" precedes
FreeCommas(s) == {i \in 1..Len(s) : s[i] = "," /\ ~OpenBefore(s, i)}

\* the pieces of s between the positions of C in order, trimmed, without
\* the empty ones
CutPieces(s, C) ==
    LET starts == {1} \cup {c + 1 : c \in C}
        piece(a) == Strip(SubSeq(s, a, Min({c \in C : c >= a} \cup {Len(s) + 1}) - 1))
        nth(k) == CHOOSE a \in starts : Cardinality({b \in starts : b < a}) = k - 1
        nonempty(p) == p # <<>>
    IN  SelectSeq([k \in 1..Cardinality(starts) |-> piece(nth(k))], nonempty)

\* C24: for every text, also one with a ")" that closes nothing,
\* split_respecting_parens splits at every comma that no unclosed "("
\* precedes; "A), B, C" gives three entries.
C24_SplitUnmatchedClose ==
    Ran(OpSplit) => out = CutPieces(text, FreeCommas(text))

\* fix-actor-data.py and then refactor-data.py run on an items file
WeaponMigration == <<OpFix, OpRefactor>>

\* C25: a standalone weapon that fix_weapon and then refactor_weapon have
\* migrated is the same record after fix_weapon and refactor_weapon are
\* applied to it again; its magazine, craftsmanship, weaponGroup, loadType
\* and loadedRounds are kept.
C25_WeaponConverges ==
    (kind = S_weapon /\ hist = WeaponMigration \o WeaponMigration)
       => /\ doc = trace[3]
          /\ \A k \in {"magazine", "craftsmanship", "weaponGroup", "loadType", "loadedRounds"} :
                At(SysOf(doc), k) = At(SysOf(trace[3]), k)

\* the bullets the extraction splits: the parts of the matched section, trimmed
BulletParts(s, labels, stops) ==
    LET parts(ps) == [k \in DOMAIN ps |-> Strip(ps[k])]
        of(m) == IF ~m.ok THEN <<>> ELSE parts(SplitBullets(Strip(m.g1)))
    IN  of(BulletSectionMatch(s, labels, stops))

\* the positions of the dashes of a bullet
Dashes(part) == {p \in DOMAIN part : part[p] \in {EmDash, EnDash}}

\* the entries of the bullets ps when every bullet is split at a dash of D(bullet),
\* the first of them, and a bullet for which D is empty gives no entry
RECURSIVE EntriesSplitAt(_, _, _)
EntriesSplitAt(ps, D(_), pairs) ==
    LET at(part, p) == PutPair(pairs, Strip(SubSeq(part, 1, p - 1)),
                               Strip(SubSeq(part, p + 1, Len(part))))
        entry(part) == IF D(part) = {} THEN pairs ELSE at(part, Min(D(part)))
    IN  IF ps = <<>> THEN pairs
        ELSE EntriesSplitAt(Tail(ps), D, entry(Head(ps)))

\* the dashes of a bullet that have text of the bullet before and after them
InnerDashes(part) == {p \in Dashes(part) : 1 < p /\ p < Len(part)}

\* C26 as the specification states it: every bullet is split at its first
\* dash, whatever stands before and after it.  Refuted: a bullet that
\* begins with a dash is split at its second dash, the first kept in the
\* name, and a bullet whose only dash is its last character gives no entry.
C26_SplitAtFirstDashAsWritten ==
    /\ Ran(OpAbilities)
          => out = EntriesSplitAt(BulletParts(text, {L_SpecialAbilities, L_SpecialRules},
                                              AbilityStops), Dashes, <<>>)
    /\ Ran(OpPowers)
          => out = EntriesSplitAt(BulletParts(text, {L_PsychicPowers}, PowerStops),
                                  Dashes, <<>>)

\* C26: extract_special_abilities and extract_psychic_powers split every
\* bullet at its first en-dash or em-dash that is neither the first nor the
\* last character of the trimmed bullet: the name is the text before it,
\* trimmed, the description all the text after it, trimmed, later dashes
\* kept; a bullet without such a dash gives no entry.
C26_SplitAtFirstDash ==
    /\ Ran(OpAbilities)
          => out = EntriesSplitAt(BulletParts(text, {L_SpecialAbilities, L_SpecialRules},
                                              AbilityStops), InnerDashes, <<>>)
    /\ Ran(OpPowers)
          => out = EntriesSplitAt(BulletParts(text, {L_PsychicPowers}, PowerStops),
                                  InnerDashes, <<>>)

\* the case of C26: a bullet with two dashes, split at the first, the
\* second kept in the description
C26_Witness ==
    /\ Ran(OpAbilities)
    /\ text = <<"S","P","E","C","I","A","L"," ","A","B","I","L","I","T","I","E","S",":","\n","BULLET"," ","F","e","a","r"," ","(","2",")"," ","EMDASH"," ","a"," ","ENDASH"," ","b","\n","BULLET"," ","R","e","g","e","n","e","r","a","t","i","o","n"," ","EMDASH"," ","r","e","g","r","o","w","s">>
    /\ out = << <<<<"F","e","a","r"," ","(","2",")">>, <<"a"," ","ENDASH"," ","b">>>>, <<<<"R","e","g","e","n","e","r","a","t","i","o","n">>, <<"r","e","g","r","o","w","s">>>> >>

\* one of the patterns of parse_trait_name matches name with an integer in
\* the parenthetical
MatchedInteger(name) ==
    \/ ParenMatch(name, "digits").ok
    \/ ParenMatch(name, "xdigits").ok
    \/ /\ ParenMatch(name, "any").ok
       /\ FirstDigits(Strip(ParenMatch(name, "any").g2)) # <<>>

\* the trait record r of make_trait agrees with parse_trait_name(name): the
\* same rating, hasRating exactly with an integer matched, and the category
\* looked up under the same base name
ParsersAgree(r, name) ==
    /\ RecField(r, "rating") = parse_trait_name(name).rating
    /\ RecField(r, "hasRating") = MatchedInteger(name)
    /\ RecField(r, "category") = MapGet(TRAIT_CATEGORIES, parse_trait_name(name).base, <<>>)

\* C27 as stated, for every trait name.  Refuted: make_trait trims the name
\* and drops its final periods before it matches, parse_trait_name does
\* not, so "Fear (4)." has rating 4 for the one and 0 for the other.
C27_ParsersAgreeAsWritten ==
    Ran(OpTrait) => ParsersAgree(out[1], text)

\* C27: for every trait name without white space at its ends and without a
\* final period, make_trait stores the rating parse_trait_name returns,
\* its hasRating is true exactly when parse_trait_name matched a
\* parenthetical with an integer, and both look up the same base name.
C27_ParsersAgree ==
    (Ran(OpTrait) /\ text = Strip(text) /\ text = RStripDot(text))
       => ParsersAgree(out[1], text)

\* the case of C27: a descriptive parenthetical with a number in it, which
\* the third pattern of both parsers takes
C27_Witness ==
    /\ Ran(OpTrait)
    /\ text = <<"S","i","z","e"," ","(","a"," ","1","2"," ","b","3",")">>
    /\ RecField(out[1], "rating") = 12
    /\ parse_trait_name(text) = [base |-> <<"S","i","z","e">>, rating |-> 12]

\* system.details.notes of the actor d
DetailsNotes(d) == At(At(SysOf(d), "details"), "notes")

\* the notes of the original actor are not empty
HasOrigNotes == Truthy(Get(Get(original, "system", EmptyDict), "notes", EmptyStr))

\* C28: the details.notes fix_actor gives an original actor in its first
\* run is the text build_notes makes of that original, and process_actor,
\* run after it on an actor whose original has notes, writes the same text.
C28_NotesRestored ==
    /\ (kind = S_actor /\ hist = <<OpFix>>) => DetailsNotes(doc) = build_notes(original)
    /\ (kind = S_actor /\ hist = <<OpFix, OpAdd>> /\ HasOrigNotes)
          => /\ DetailsNotes(doc) = build_notes(original)
             /\ DetailsNotes(doc) = DetailsNotes(trace[2])

\* the case of C28: process_actor has restored the notes of an actor that
\* has a description, a threat rating, a movement and notes
C28_Witness ==
    /\ kind = S_actor
    /\ hist = <<OpFix, OpAdd>>
    /\ HasOrigNotes
    /\ \A k \in {"description", "threatRating", "movement"} : Truthy(Get(SysOf(original), k, None))
    /\ Contains(Val(DetailsNotes(doc)), <<"\n","T","H","R","E","A","T"," ","R","A","T","I","N","G",":"," ","E","x","t","r","e","m","i","s","\n">>)
    /\ Contains(Val(DetailsNotes(doc)), <<"\n","M","O","V","E","M","E","N","T",":"," ","H","a","l","f"," ","4",","," ","F","u","l","l"," ","8",","," ","C","h","a","r","g","e"," ","1","2",","," ","R","u","n"," ","2","4","\n">>)

\* the base names of the entries of the TRAITS section of s, as the
\* records built from them are named
TraitSectionBases(s) ==
    LET entries == extract_section(s, L_Traits)
    IN  {TextBeforeParen(RStripDot(Strip(entries[i]))) : i \in DOMAIN entries}

\* the records of items that are traits with the name and the description given
TraitsOf(items, name, desc) ==
    {i \in DOMAIN items : /\ At(items[i], "type") = Str(S_trait)
                          /\ RecName(items[i]) = name
                          /\ SysField(items[i], "description") = Str(desc)}

\* C29: every special-ability bullet whose base name is the base name of
\* no entry of the TRAITS section gives exactly one trait record with the
\* bullet's name and description, also when another bullet has the same
\* base name and another parenthetical.
C29_OnlyTraitsEntrySuppresses ==
    Ran(OpTraits)
       => \A k \in DOMAIN extract_special_abilities(text) :
             LET bullet == extract_special_abilities(text)[k]
             IN  TextBeforeParen(bullet[1]) \notin TraitSectionBases(text)
                    => Cardinality(TraitsOf(out, bullet[1], bullet[2])) = 1

\* the embedded items of d that are no skill, talent, trait or power
OtherItemsOf(d) ==
    LET other(i) == Get(i, "type", None) \notin DerivedTypes
    IN  SelectSeq(ItemsOf(d), other)

\* the actor d without its items and without system.details.notes
Frame(d) ==
    Put(Del(d, "items"), "system",
        Put(SysOf(d), "details", Del(At(SysOf(d), "details"), "notes")))

\* C30: process_actor keeps every embedded item that is no skill, talent,
\* trait or power, unchanged and in order, ahead of the records it has
\* derived; it changes no field of the actor other than items and
\* system.details.notes; and with an original whose notes are empty it
\* changes nothing.
C30_OnlyDerivedPartsChange ==
    (kind = S_actor /\ Ran(OpAdd))
       => /\ OtherItemsOf(doc) = OtherItemsOf(Pre)
          /\ created # <<>> => ItemsOf(doc) = OtherItemsOf(Pre) \o created
          /\ HasOrigNotes => Frame(doc) = Frame(Pre)
          /\ ~HasOrigNotes => doc = Pre

\* the case of C30: process_actor has run on an actor that had three items
\* of other kinds and records of an earlier run, and has derived new records
C30_Witness ==
    /\ kind = S_actor
    /\ Ran(OpAdd)
    /\ HasOrigNotes
    /\ created # <<>>
    /\ Len(OtherItemsOf(Pre)) = 3
    /\ Len(ItemsOf(Pre)) > 3
    /\ ItemsOf(doc) = OtherItemsOf(Pre) \o created

====
